---------------------------- MODULE Spec2Model ----------------------------
(***************************************************************************)
(* A model of the hybrid retrieval engine of ai-dev-lab (lab/rag):         *)
(*   chunk.py     simple_sentence_split, chunk_records                     *)
(*   retrieve.py  BM25Retriever                                            *)
(*   embed.py     Embeddings                                               *)
(*   vector.py    FaissIndex                                               *)
(*   hybrid.py    build_vector_index, HybridRetriever                      *)
(*                                                                         *)
(* Raw scores (BM25 scores, dot products) are integers counted in units of *)
(* 1e-9, so the threshold of hybrid.py:52 is one unit.  Normalized and     *)
(* fused scores are exact rationals <<numerator, denominator>> in lowest   *)
(* terms; a denominator of 0 stands for the result of a division by zero.  *)
(* A chunk is identified by its position in the chunk list: chunk ids are  *)
(* pairwise distinct strings, and the model writes i for the id of the     *)
(* i-th chunk.                                                             *)
(***************************************************************************)
EXTENDS Integers, Sequences, FiniteSets, TLC

(***************************************************************************)
(* Bounds of the model.                                                    *)
(***************************************************************************)
\* Raw scores of freely scored chunks range over 0..MaxScore: 0 and 1 lie
\* within the threshold of each other, 0 and 2 do not.
MaxScore == 2
\* Query sizes k range over -1..MaxK.
MaxK == 2
\* Large corpora hold MinFetch padding chunks and 1..MaxExtra free chunks.
MaxExtra == 1

\* The texts of one chunk_records call hold at most MaxTextLen characters
\* in all, in at most MaxDocs records.
MaxTextLen == 5
MaxDocs == 2
\* max_chars ranges over -1..MaxChars.
MaxChars == 4
\* chunk_text is given texts of 0 .. MaxWords words by ingesters whose
\* chunk_size is 1 .. MaxChunkSize.
MaxWords == 5
MaxChunkSize == 3
\* rotate_and_compress is given directories with logs of the days
\* 1 .. MaxLogDays and days_to_keep in 0 .. MaxLogDays.
MaxLogDays == 3

(***************************************************************************)
(* Program constants.                                                      *)
(***************************************************************************)
\* audit.py:71  a log is compressed once it is 7 days old
CompressAfterDays == 7
\* hybrid.py:39,43  k=max(k, 10)
MinFetch == 10
\* hybrid.py:52  hi - lo <= 1e-9, in score units
Eps == 1
\* embed.py:44  dim: int = 128
StubDim == 128
\* embed.py:48  the length of a SHA-256 digest, len(h)
DigestLen == 32

Libs == {"rank_bm25", "faiss", "sentence_transformers"}
None == "None"
\* An alpha that is not given (the argument None, the variable unset).
NoArg == <<>>

Min(a, b) == IF a <= b THEN a ELSE b
Max(a, b) == IF a >= b THEN a ELSE b
Abs(a) == IF a < 0 THEN -a ELSE a

(***************************************************************************)
(* Exact rational arithmetic standing for Python floats.                   *)
(***************************************************************************)
RECURSIVE GCD(_, _)
GCD(a, b) == IF b = 0 THEN a ELSE GCD(b, a % b)

\* n / d in lowest terms, d >= 0; d = 0 marks a division by zero.
Rat(n, d) ==
    IF d = 0 THEN <<n, 0>>
    ELSE LET g == GCD(Abs(n), d) IN <<n \div g, d \div g>>

Zero == <<0, 1>>
One == <<1, 1>>
RAdd(a, b) == Rat(a[1] * b[2] + b[1] * a[2], a[2] * b[2])
RSub(a, b) == Rat(a[1] * b[2] - b[1] * a[2], a[2] * b[2])
RMul(a, b) == Rat(a[1] * b[1], a[2] * b[2])
RLe(a, b) == a[1] * b[2] <= b[1] * a[2]
RLt(a, b) == a[1] * b[2] < b[1] * a[2]

\* The values alpha takes: 0, 1/2, 1 and, outside [0,1], -1/2 and 3/2.
Alphas == {<<-1, 2>>, <<0, 1>>, <<1, 2>>, <<1, 1>>, <<3, 2>>}
KValues == -1 .. MaxK
\* The k of a hybrid query: also one above the floor of the fetch.
QueryKs == KValues \cup {MinFetch + 1}
Scores == 0 .. MaxScore
\* Small corpora, whose chunks take every raw score.
SmallSizes == {0, 1, 2}

\* Python's s[:k].
Slice(s, k) ==
    IF k >= 0 THEN SubSeq(s, 1, Min(k, Len(s)))
    ELSE SubSeq(s, 1, Max(Len(s) + k, 0))

Range(s) == {s[i] : i \in DOMAIN s}

(***************************************************************************)
(* Inputs.  A corpus is its number of chunks; a query is seen through the  *)
(* raw score it gives every chunk under each method (the BM25 score of     *)
(* get_scores, the dot product of the embeddings).  Corpora of more than   *)
(* MinFetch chunks are needed for the two methods to return different      *)
(* candidates: they hold MinFetch padding chunks, the i-th scoring i under *)
(* both methods, and then extra chunks that score below every padding      *)
(* chunk (0), level with one (MaxScore) or above them all (MinFetch + 1).  *)
(***************************************************************************)
ExtraScores == {0, MaxScore, MinFetch + 1}

CorpusSizes == SmallSizes \cup ((MinFetch + 1) .. (MinFetch + MaxExtra))

ScoreVectors(n) ==
    IF n <= MinFetch
    THEN [1 .. n -> Scores]
    ELSE {[i \in 1 .. n |-> IF i <= MinFetch THEN i ELSE f[i - MinFetch]] :
            f \in [1 .. (n - MinFetch) -> ExtraScores]}

VARIABLES
    installed,  \* the optional libraries that import: a subset of Libs
    pc,         \* "new", "built" (constructed), "ctor_raised"
    last,       \* the last call: "none", "init", "query"
    exc,        \* the exception the last call raised, "none" if it returned
    chunks,     \* HybridRetriever.chunks: the chunk ids, in insertion order
    alpha,      \* HybridRetriever.alpha
    emb,        \* HybridRetriever.emb: [backend, model]
    bm25,       \* HybridRetriever.bm25: None or [corpus_size]
    index,      \* HybridRetriever.index: None or [faiss, metric, ids,
                \* stored (vectors were added), rows (their number)]
    k,          \* the k of the last query
    v_hits,     \* locals of the last query
    v_map,
    bm_hits,
    bm_map,
    v_n,
    bm_n,
    merged,     \* cid -> fused score (the list's order is left to sort)
    hits        \* the list returned by the last query

VARIABLES
    c_pc,       \* chunk_records: "idle", "done" (it has returned)
    c_exc,      \* the exception chunk_records raised, or "none"
    records,    \* its records: [id, text, ref], a text being its characters
    max_chars,  \* its max_chars
    out_chunks  \* the list it returned: [id, text, meta]

cvars == <<c_pc, c_exc, records, max_chars, out_chunks>>

VARIABLES
    b_pc,       \* a BM25Retriever of its own: "new", "built", "ctor_raised"
    b_last,     \* its last call: "none", "init", "query"
    b_exc,      \* the exception that call raised, "none" if it returned
    b_chunks,   \* BM25Retriever.chunks: the chunk ids, in insertion order
    b_scores,   \* bm25.get_scores(q_tokens) of the last query
    b_k,        \* the k of the last query
    b_out       \* the list the last query returned: <<chunk id, score>>

bvars == <<b_pc, b_last, b_exc, b_chunks, b_scores, b_k, b_out>>

VARIABLES
    i_pc,       \* two FaissIndex objects fed alike: "new", "constructed",
                \* "added"
    i_last,     \* their last call: "none", "init", "add", "search"
    ix_faiss,   \* the FaissIndex of a process in which faiss imports
    ix_numpy,   \* the FaissIndex of a process in which it does not
    i_vectors,  \* the vectors passed to add so far, over all calls: the id
                \* passed with a vector is its place in this list
    i_adds,     \* the number of add calls so far
    X_faiss,    \* the rows faiss's index of ix_faiss holds
    X_numpy,    \* ix_numpy._matrix: its rows, <<>> for shape (0,)
    i_q,        \* the query vector of the last search
    i_k,        \* its k
    out_faiss,  \* search([q], k)[0] of ix_faiss
    out_numpy,  \* search([q], k)[0] of ix_numpy
    exc_faiss,  \* the exception the last call on ix_faiss raised, or "none"
    exc_numpy   \* the exception the last call on ix_numpy raised, or "none"

ivars == <<i_pc, i_last, ix_faiss, ix_numpy, i_vectors, i_adds, X_faiss,
           X_numpy, i_q, i_k,
           out_faiss, out_numpy, exc_faiss, exc_numpy>>

VARIABLES
    e_pc,         \* an Embeddings provider of its own: "new", "built"
    e_last,       \* its last call: "none", "init", "encode"
    e_arg,        \* the backend it was constructed with (None: the default)
    e_emb,        \* the provider: [backend, model]
    e_exc,        \* the exception the last encode raised, or "none"
    e_texts,      \* the texts of the last encode
    e_out,        \* the vectors it returned
    e_prev_texts, \* the texts and the vectors of the stub encode before
    e_prev_out    \* it, by this provider or by an earlier one

evars == <<e_pc, e_last, e_arg, e_emb, e_exc, e_texts, e_out, e_prev_texts,
           e_prev_out>>

VARIABLES
    t_pc,       \* per caller, where its query call on the one retriever
                \* stands: "idle", "encoded", "searched", "scored", "merged",
                \* "done"
    t_args,     \* per caller, the arguments it passed: [k, sims, bms]
    t_ret,      \* per caller, the list its call returned
    frames      \* per activation of query, its parameters and locals

tvars == <<t_pc, t_args, t_ret, frames>>

VARIABLES
    m_pc,       \* a RetrievalEvaluator: "new", "built"
    m_last,     \* its last call: "none", "init", "add_result", or the
                \* metric called, "precision_at_k" for one
    m_results,  \* RetrievalEvaluator.results: [retrieved_docs, relevant_docs]
    m_k,        \* the k of the last metric call
    m_value     \* the number that call returned

mvars == <<m_pc, m_last, m_results, m_k, m_value>>

VARIABLES
    d_pc,           \* a DocumentIngester: "new", "built", "looping" (inside
                    \* the loop of chunk_text), "done" (chunk_text returned)
    chunk_size,     \* DocumentIngester.chunk_size
    overlap,        \* DocumentIngester.overlap, a ratio
    overlap_tokens, \* DocumentIngester.overlap_tokens
    words,          \* text.split() of the text passed to chunk_text
    start_idx,      \* locals of chunk_text
    chunk_num,
    d_chunks        \* chunks: the list chunk_text builds and returns

dvars == <<d_pc, chunk_size, overlap, overlap_tokens, words, start_idx,
           chunk_num, d_chunks>>

VARIABLES
    g_pc,           \* a Guardian: "new", "built"
    g_last,         \* its last call: "none", "init", "call" (of a wrapper)
    allowlist,      \* Guardian.allowlist
    redact_outputs, \* Guardian.redact_outputs
    g_name,         \* the tool_name the called wrapper was made for
    g_runs,         \* how often the wrapped function ran in the last call
    g_func,         \* what the wrapped function did in it: [raised, value]
    g_ret           \* what the wrapper returned

gvars == <<g_pc, g_last, allowlist, redact_outputs, g_name, g_runs, g_func,
           g_ret>>

VARIABLES
    a_pc,           \* an AuditLogger: "new", "built"
    a_last,         \* its last call: "none", "init", "log_tool_call",
                    \* "log_security_event"
    a_today,        \* the day datetime.utcnow() is in
    a_current,      \* the day in AuditLogger._current_log_path
    retention_days, \* AuditLogger.retention_days
    a_files,        \* the files of the log directory, by <<day, suffix>>:
                    \* [lines, mtime]
    a_args,         \* the data the last call was given: [input, output]
    a_ids           \* the number of request ids generated so far

avars == <<a_pc, a_last, a_today, a_current, retention_days, a_files,
           a_args, a_ids>>

VARIABLES
    r_pc,       \* rotate_and_compress: "idle", "done" (it has returned)
    r_args,     \* its arguments: [days_to_keep, compress]
    r_before,   \* the files of base_dir when it was called: name -> content
    r_dir       \* the files of base_dir now

rvars == <<r_pc, r_args, r_before, r_dir>>

hvars == <<installed, pc, last, exc, chunks, alpha, emb, bm25, index,
           k, v_hits, v_map, bm_hits, bm_map, v_n, bm_n, merged, hits>>

vars == <<hvars, cvars, bvars, ivars, evars, tvars, mvars, dvars, gvars,
          avars, rvars>>

\* What the calls on one component leave alone.
NotRetriever == <<cvars, bvars, ivars, evars, tvars, mvars, dvars, gvars,
                  avars, rvars>>
NotChunker == <<hvars, bvars, ivars, evars, tvars, mvars, dvars, gvars,
                avars, rvars>>
NotBM25 == <<hvars, cvars, ivars, evars, tvars, mvars, dvars, gvars, avars,
             rvars>>
NotIndex == <<hvars, cvars, bvars, evars, tvars, mvars, dvars, gvars, avars,
              rvars>>
NotEmbeddings == <<hvars, cvars, bvars, ivars, tvars, mvars, dvars, gvars,
                   avars, rvars>>
NotCallers == <<cvars, bvars, ivars, evars, mvars, dvars, gvars, avars,
                rvars>>
NotEvaluator == <<hvars, cvars, bvars, ivars, evars, tvars, dvars, gvars,
                  avars, rvars>>
NotIngester == <<hvars, cvars, bvars, ivars, evars, tvars, mvars, gvars,
                 avars, rvars>>
NotGuardian == <<hvars, cvars, bvars, ivars, evars, tvars, mvars, dvars,
                 avars, rvars>>
NotAudit == <<hvars, cvars, bvars, ivars, evars, tvars, mvars, dvars, gvars,
              rvars>>
NotRotate == <<hvars, cvars, bvars, ivars, evars, tvars, mvars, dvars, gvars,
               avars>>

EmptyMap == [c \in {} |-> 0]

(***************************************************************************)
(* embed.py                                                                *)
(***************************************************************************)
\* Embeddings.__init__ without the except clause of lines 29-34: the
\* backend stays as asked and no model is there.
Embeddings_init_no_fallback(b, libs) ==
    LET backend == IF b = None THEN "st" ELSE b IN
    IF backend \in {"stub", "fake"}
    THEN [backend |-> backend, model |-> FALSE]
    ELSE [backend |-> backend, model |-> "sentence_transformers" \in libs]

\* Embeddings.__init__(backend=b): b is the backend argument or EMBED_BACKEND.
Embeddings_init(b, libs) ==
    LET backend == IF b = None THEN "st" ELSE b IN
    IF backend \in {"stub", "fake"}
    THEN [backend |-> backend, model |-> FALSE]
    ELSE IF "sentence_transformers" \in libs
         THEN [backend |-> backend, model |-> TRUE]
         ELSE [backend |-> "stub", model |-> FALSE]

\* Embeddings.encode: "ok", or the exception of a call on a missing model.
Embeddings_encode(e) ==
    IF e.backend \in {"stub", "fake"} THEN "ok"
    ELSE IF e.model THEN "ok" ELSE "AttributeError"

\* ord(c) of the characters of the model's texts
Ord(c) == IF c = "a" THEN 97 ELSE IF c = "." THEN 46 ELSE 32

\* hashlib.sha256(text.encode("utf-8")).digest().  SHA-256 is not computed
\* here: a fixed function of the text's characters and their places into
\* DigestLen bytes stands for it.
RECURSIVE ByteSum(_, _, _)
ByteSum(t, i, j) ==
    IF i > Len(t) THEN 0 ELSE Ord(t[i]) * (i + j) + ByteSum(t, i + 1, j)

sha256_digest(t) ==
    [j \in 1 .. DigestLen |-> (7 * Len(t) + 31 * j + ByteSum(t, 1, j)) % 256]

\* sum(v * v for v in vals) over the places lo..hi, added up by halves
RECURSIVE SumSq(_, _, _)
SumSq(vals, lo, hi) ==
    IF lo > hi THEN 0
    ELSE IF lo = hi THEN vals[lo] * vals[lo]
    ELSE LET mid == (lo + hi) \div 2
         IN SumSq(vals, lo, mid) + SumSq(vals, mid + 1, hi)

\* Embeddings._stub(text): vals[i] = h[i % len(h)] / 255.0, divided by
\* norm = sqrt(sum(v * v)) or 1.0.  A component <<b, s>> stands for the float
\* (b / 255) / sqrt(s / 255^2), s being the sum of the squares of the bytes
\* (1 when that sum is 0 and norm falls back to 1.0).
Embeddings_stub(text) ==
    LET h == sha256_digest(text)
        vals == [i \in 1 .. StubDim |-> h[((i - 1) % DigestLen) + 1]]
        ss == SumSq(vals, 1, StubDim)
    IN [i \in 1 .. StubDim |-> <<vals[i], IF ss = 0 THEN 1 ELSE ss>>]

\* The vectors in the order of the texts read backwards.
Embeddings_encode_reversed(e, texts) ==
    [i \in DOMAIN texts |-> Embeddings_stub(texts[Len(texts) + 1 - i])]

\* What Embeddings.encode(texts) returns when it returns.  The vectors of
\* the model are its own: <<"model", t>> stands for the model's vector of t.
Embeddings_encode_vectors(e, texts) ==
    IF e.backend \in {"stub", "fake"}
    THEN [i \in DOMAIN texts |-> Embeddings_stub(texts[i])]
    ELSE [i \in DOMAIN texts |-> <<"model", texts[i]>>]

(***************************************************************************)
(* retrieve.py                                                             *)
(***************************************************************************)
\* rank_bm25's BM25Okapi(corpus) divides by the corpus size (avgdl).
BM25Okapi_init(n) == IF n = 0 THEN "ZeroDivisionError" ELSE "ok"

\* BM25Retriever.__init__: the exception it raises, "none" if it returns.
BM25Retriever_init(n, libs) ==
    IF "rank_bm25" \notin libs THEN "RuntimeError"
    ELSE IF BM25Okapi_init(n) # "ok" THEN BM25Okapi_init(n)
    ELSE "none"

\* A descending sort that leaves equal scores in reverse insertion order
\* (an ascending sort read backwards).
RECURSIVE AscendingReversed(_, _)
AscendingReversed(S, scores) ==
    IF S = {} THEN <<>>
    ELSE LET mx == CHOOSE i \in S : \A j \in S :
                      scores[j] < scores[i] \/ (scores[j] = scores[i] /\ i >= j)
         IN <<mx>> \o AscendingReversed(S \ {mx}, scores)

\* sorted(range(len(scores)), key=lambda i: scores[i], reverse=True):
\* Python's sort is stable, also with reverse=True.
RECURSIVE StableDesc(_, _)
StableDesc(S, scores) ==
    IF S = {} THEN <<>>
    ELSE LET mx == CHOOSE i \in S : \A j \in S :
                      scores[j] < scores[i] \/ (scores[j] = scores[i] /\ i <= j)
         IN <<mx>> \o StableDesc(S \ {mx}, scores)

\* BM25Retriever.query: the hits as <<chunk id, score>>.
BM25Retriever_query(ch, scores, kk) ==
    LET top_idx == Slice(StableDesc(DOMAIN scores, scores), kk)
    IN [p \in DOMAIN top_idx |-> <<ch[top_idx[p]], scores[top_idx[p]]>>]

(***************************************************************************)
(* vector.py                                                               *)
(***************************************************************************)
\* FaissIndex.__init__(dim, metric)
FaissIndex_init(metric, libs) ==
    [faiss |-> "faiss" \in libs, metric |-> metric, ids |-> <<>>,
     stored |-> FALSE, rows |-> 0]

\* FaissIndex.add(ids, vectors) with len(vectors) = n: the exception, or "none".
\* np.array([]) has shape (0,), which faiss's add refuses (n, d = x.shape).
FaissIndex_add_exc(ix, n) ==
    IF ix.faiss /\ n = 0 THEN "ValueError" ELSE "none"

FaissIndex_add(ix, ids, n) ==
    [ix EXCEPT !.ids = @ \o ids,
               !.stored = TRUE,
               !.rows = @ + n]

\* np.atleast_2d, which np.vstack applies to its arguments: shape (0,)
\* becomes one row of no columns.
np_atleast_2d(M) == IF M = <<>> THEN << <<>> >> ELSE M
\* The number of columns of a matrix of one row or more.
Width(M) == Len(M[1])
\* np.vstack([A, B]) refuses arguments of different widths.
np_vstack_exc(A, B) ==
    IF Width(np_atleast_2d(A)) # Width(np_atleast_2d(B)) THEN "ValueError"
    ELSE "none"
np_vstack(A, B) == np_atleast_2d(A) \o np_atleast_2d(B)

\* FaissIndex.add(ids, vectors) on an index ix that holds the rows X: the
\* index and the rows it leaves, and the exception it raised.  With faiss
\* index.add runs first (line 32) and the ids follow only if it returned;
\* without, the ids are extended first (line 35) and np.vstack runs after.
FaissIndex_add_vectors(ix, X, ids, vs) ==
    IF ix.faiss
    THEN IF FaissIndex_add_exc(ix, Len(vs)) # "none"
         THEN [ix |-> ix, X |-> X, exc |-> FaissIndex_add_exc(ix, Len(vs))]
         ELSE [ix |-> FaissIndex_add(ix, ids, Len(vs)), X |-> X \o vs,
               exc |-> "none"]
    ELSE LET labelled == [ix EXCEPT !.ids = @ \o ids] IN
         IF ~ix.stored
         THEN [ix |-> FaissIndex_add(ix, ids, Len(vs)), X |-> vs,
               exc |-> "none"]
         ELSE IF np_vstack_exc(X, vs) # "none"
         THEN [ix |-> labelled, X |-> X, exc |-> np_vstack_exc(X, vs)]
         ELSE [ix |-> [labelled EXCEPT !.rows = Len(np_vstack(X, vs))],
               X |-> np_vstack(X, vs), exc |-> "none"]

\* Every order in which a sort without a stated tie order can leave S,
\* descending by scores.
RECURSIVE DescOrders(_, _)
DescOrders(S, scores) ==
    IF S = {} THEN {<<>>}
    ELSE LET mx == {i \in S : \A j \in S : scores[j] <= scores[i]}
         IN UNION {{<<i>> \o t : t \in DescOrders(S \ {i}, scores)} : i \in mx}

\* FaissIndex.search([q], k)[0] where sims[i] is the dot product of q with
\* the i-th stored vector: the lists it can return.  np.argsort(-sims) and
\* faiss's flat index both leave the order of equal similarities open;
\* faiss pads with -1, which line 48 drops.
FaissIndex_search(ix, sims, kk) ==
    {[p \in DOMAIN Slice(o, kk) |-> <<ix.ids[o[p]], sims[o[p]]>>] :
        o \in DescOrders(DOMAIN sims, sims)}

\* X @ q on a matrix built from no vectors: shapes (0,) and (dim,).
FaissIndex_search_exc(ix) ==
    IF ~ix.faiss /\ ix.rows = 0 THEN "ValueError" ELSE "none"

\* The vectors of the model: two small whole coordinates, which float32
\* holds exactly.
Coords == {0, 1, 2}
Vectors == [{1, 2} -> Coords]

\* X @ q, row by row
Dot(x, q) == x[1] * q[1] + x[2] * q[2]
\* the squared distance faiss.IndexFlatL2 reports
L2sq(x, q) == (x[1] - q[1]) * (x[1] - q[1]) + (x[2] - q[2]) * (x[2] - q[2])

\* Does search rank by distance?  Only faiss's IndexFlatL2 does (line 17);
\* the numpy path never reads self.metric.
RanksByL2(ix) == ix.faiss /\ ix.metric = "l2"

\* The number the search reports for a stored vector x, and the key by
\* which it ranks, greatest first: the inner product, or the distance,
\* least first.
Reported(ix, x, q) == IF RanksByL2(ix) THEN L2sq(x, q) ELSE Dot(x, q)
RankKey(ix, x, q) == IF RanksByL2(ix) THEN 0 - L2sq(x, q) ELSE Dot(x, q)

\* The rows a search over the stored rows X can pick, best first: row_i of
\* line 46 without faiss's -1 padding, idx of line 57.
FaissIndex_search_rows(ix, X, q, kk) ==
    LET key == [i \in DOMAIN X |-> RankKey(ix, X[i], q)]
    IN {Slice(o, kk) : o \in DescOrders(DOMAIN key, key)}

\* self.ids[i] of lines 47 and 58 for the picked rows: a row past the end
\* of ids is an IndexError.
FaissIndex_search_ids_exc(ix, top) ==
    IF \E p \in DOMAIN top : top[p] > Len(ix.ids) THEN "IndexError"
    ELSE "none"

\* The pairs of lines 47 and 58 for the picked rows.
FaissIndex_search_pairs(ix, X, q, top) ==
    [p \in DOMAIN top |-> <<ix.ids[top[p]], Reported(ix, X[top[p]], q)>>]

\* FaissIndex.search([q], k)[0] over the stored vectors X.
FaissIndex_search_vectors(ix, X, q, kk) ==
    {FaissIndex_search_pairs(ix, X, q, top) :
        top \in FaissIndex_search_rows(ix, X, q, kk)}

\* X @ q of line 56 needs rows as wide as q: shape (0,) and rows of no
\* columns raise.
FaissIndex_search_matmul_exc(ix, X, q) ==
    IF ~ix.faiss /\ (X = <<>> \/ Width(X) # Len(q)) THEN "ValueError"
    ELSE "none"

\* faiss's Python wrapper of index.search asserts k > 0.
FaissIndex_search_k_exc(ix, kk) ==
    IF ix.faiss /\ kk <= 0 THEN "AssertionError" ELSE "none"

(***************************************************************************)
(* hybrid.py                                                               *)
(***************************************************************************)
\* float(alpha if alpha is not None else os.getenv("HYBRID_ALPHA", "0.5"))
\* A fetch of the floor alone, whatever k is.
fetch_floor_only(kk) == MinFetch

\* max(k, 10): the number of candidates query asks of each method
fetch(kk) == Max(kk, MinFetch)

ctor_alpha(arg, env) ==
    IF arg # NoArg THEN arg ELSE IF env # NoArg THEN env ELSE <<1, 2>>

\* {cid: score for cid, score in hits}
ToMap(hs) == [c \in {hs[p][1] : p \in DOMAIN hs} |->
                 hs[CHOOSE p \in DOMAIN hs : hs[p][1] = c][2]]

MinOf(d) == CHOOSE v \in {d[c] : c \in DOMAIN d} : \A c \in DOMAIN d : v <= d[c]
MaxOf(d) == CHOOSE v \in {d[c] : c \in DOMAIN d} : \A c \in DOMAIN d : d[c] <= v

\* norm without the guard of line 52: min-max over a zero spread.
norm_unguarded(d) ==
    IF DOMAIN d = {} THEN EmptyMap
    ELSE [c \in DOMAIN d |-> Rat(d[c] - MinOf(d), MaxOf(d) - MinOf(d))]

\* norm(d)
norm(d) ==
    IF DOMAIN d = {} THEN EmptyMap
    ELSE LET lo == MinOf(d)
             hi == MaxOf(d)
         IN IF hi - lo <= Eps
            THEN [c \in DOMAIN d |-> One]
            ELSE [c \in DOMAIN d |-> Rat(d[c] - lo, hi - lo)]

\* d.get(cid, default)
Get(d, cid, default) == IF cid \in DOMAIN d THEN d[cid] ELSE default

\* The fused score with the BM25 weight left at 1.
fuse_no_complement(a, vs, bs) == RAdd(RMul(a, vs), bs)

\* The fused score with the two weights exchanged.
fuse_swapped(a, vs, bs) == RAdd(RMul(RSub(One, a), vs), RMul(a, bs))

\* score = self.alpha * vs + (1.0 - self.alpha) * bs
fuse(a, vs, bs) == RAdd(RMul(a, vs), RMul(RSub(One, a), bs))

\* The candidates without the union: the vector hits only.
all_ids_vector_only(vm, bmm) == DOMAIN vm

\* all_ids = set(v_map) | set(bm_map)
all_ids(vm, bmm) == DOMAIN vm \cup DOMAIN bmm

\* the loop of lines 59-64, as cid -> score
merge(a, vm, bmm, vn, bn) ==
    [cid \in all_ids(vm, bmm) |->
        fuse(a, Get(vn, cid, Zero), Get(bn, cid, Zero))]

\* merged.sort(key=lambda x: x[1], reverse=True): the loop appends in the
\* iteration order of a set of strings, which Python leaves open, and the
\* sort is stable, so the list can end in any descending order of the ids.
\* SortedFrom(S, mg) are the orders of the ids S.
RECURSIVE SortedFrom(_, _)
SortedFrom(S, mg) ==
    IF S = {} THEN {<<>>}
    ELSE LET mx == {c \in S : \A d \in S : RLe(mg[d], mg[c])}
         IN UNION {{<<c>> \o t : t \in SortedFrom(S \ {c}, mg)} : c \in mx}

\* The sort without reverse=True: ascending.
RECURSIVE SortedFromAsc(_, _)
SortedFromAsc(S, mg) ==
    IF S = {} THEN {<<>>}
    ELSE LET mn == {c \in S : \A d \in S : RLe(mg[c], mg[d])}
         IN UNION {{<<c>> \o t : t \in SortedFromAsc(S \ {c}, mg)} : c \in mn}

merged_sort_ascending(mg) == SortedFromAsc(DOMAIN mg, mg)

merged_sort(mg) == SortedFrom(DOMAIN mg, mg)

\* the materialized list of lines 70-77 (text and source are copied from
\* the chunk of that id)
materialize(top, mg, vm, bmm) ==
    [p \in DOMAIN top |->
        [chunk_id |-> top[p], score |-> mg[top[p]],
         vector |-> Get(vm, top[p], 0), bm25 |-> Get(bmm, top[p], 0)]]

(***************************************************************************)
(* eval/metrics.py                                                         *)
(***************************************************************************)
\* n / d of Python floats, d # 0 of either sign
RDiv(n, d) == IF d < 0 THEN Rat(0 - n, 0 - d) ELSE Rat(n, d)

\* sum(1 for doc in top_k if doc in relevant_docs), from place i on
RECURSIVE relevant_retrieved(_, _, _)
relevant_retrieved(top_k, relevant_docs, i) ==
    IF i > Len(top_k) THEN 0
    ELSE (IF top_k[i] \in Range(relevant_docs) THEN 1 ELSE 0)
         + relevant_retrieved(top_k, relevant_docs, i + 1)

\* The precision of one result with k itself as the divisor.
precision_over_k(result, kk) ==
    LET top_k == Slice(result.retrieved_docs, kk)
    IN IF top_k = <<>> THEN Zero
       ELSE RDiv(relevant_retrieved(top_k, result.relevant_docs, 1), kk)

\* lines 93-95: the precision of one result
precision_of_result(result, kk) ==
    LET top_k == Slice(result.retrieved_docs, kk)
    IN IF top_k = <<>> THEN Zero
       ELSE RDiv(relevant_retrieved(top_k, result.relevant_docs, 1),
                 Min(kk, Len(top_k)))

RECURSIVE RSum(_, _)
RSum(vals, i) ==
    IF i > Len(vals) THEN Zero ELSE RAdd(vals[i], RSum(vals, i + 1))

\* np.mean(vals) of a non-empty list
np_mean(vals) == RMul(RSum(vals, 1), Rat(1, Len(vals)))

\* RetrievalEvaluator.precision_at_k(k)
precision_at_k(results, kk) ==
    IF results = <<>> THEN Zero
    ELSE np_mean([i \in DOMAIN results |-> precision_of_result(results[i], kk)])

\* lines 63-65: does a document of top_k occur in relevant_docs?
hit_of_result(result, kk) ==
    \E p \in DOMAIN Slice(result.retrieved_docs, kk) :
        result.retrieved_docs[p] \in Range(result.relevant_docs)

\* RetrievalEvaluator.hit_at_k(k)
hit_at_k(results, kk) ==
    IF results = <<>> THEN Zero
    ELSE RDiv(Cardinality({i \in DOMAIN results : hit_of_result(results[i], kk)}),
              Len(results))

\* lines 76-82: 1 / (i + 1) for the first place i (from 0) of top_k that
\* holds a relevant document, 0.0 when there is none
reciprocal_rank(result, kk) ==
    LET top_k == Slice(result.retrieved_docs, kk)
        at == {p \in DOMAIN top_k : top_k[p] \in Range(result.relevant_docs)}
    IN IF at = {} THEN Zero
       ELSE Rat(1, CHOOSE p \in at : \A r \in at : p <= r)

\* RetrievalEvaluator.mrr_at_k(k)
mrr_at_k(results, kk) ==
    IF results = <<>> THEN Zero
    ELSE np_mean([i \in DOMAIN results |-> reciprocal_rank(results[i], kk)])

\* lines 107-109: the recall of one result
recall_of_result(result, kk) ==
    LET top_k == Slice(result.retrieved_docs, kk)
    IN IF result.relevant_docs = <<>> THEN Zero
       ELSE RDiv(relevant_retrieved(top_k, result.relevant_docs, 1),
                 Len(result.relevant_docs))

\* RetrievalEvaluator.recall_at_k(k)
recall_at_k(results, kk) ==
    IF results = <<>> THEN Zero
    ELSE np_mean([i \in DOMAIN results |-> recall_of_result(results[i], kk)])

\* RetrievalEvaluator.f1_at_k(k)
f1_at_k(results, kk) ==
    LET precision == precision_at_k(results, kk)
        recall == recall_at_k(results, kk)
        total == RAdd(precision, recall)
    IN IF total = Zero THEN Zero
       ELSE RDiv(2 * RMul(precision, recall)[1] * total[2],
                 RMul(precision, recall)[2] * total[1])

(***************************************************************************)
(* chunk.py.  A text is the sequence of its characters; the model's texts  *)
(* are written with a letter, a full stop and a space.                     *)
(***************************************************************************)
Alphabet == {"a", ".", " "}
IsSpace(c) == c = " "
IsEnd(c) == c \in {".", "!", "?"}

\* text.strip()
RECURSIVE strip(_)
strip(t) ==
    IF t = <<>> THEN t
    ELSE IF IsSpace(t[1]) THEN strip(Tail(t))
    ELSE IF IsSpace(t[Len(t)]) THEN strip(SubSeq(t, 1, Len(t) - 1))
    ELSE t

\* The end of the run of whitespace that starts at i: the first j >= i
\* that is no whitespace (Len(t) + 1 when the run reaches the end).
RECURSIVE RunEnd(_, _)
RunEnd(t, i) ==
    IF i <= Len(t) /\ IsSpace(t[i]) THEN RunEnd(t, i + 1) ELSE i

\* re.split(r'(?<=[.!?])\s+', t) from position i on, cur being the piece
\* read so far: a match is a maximal run of whitespace that follows one of
\* . ! ?
RECURSIVE re_split(_, _, _)
re_split(t, i, cur) ==
    IF i > Len(t) THEN <<cur>>
    ELSE IF IsSpace(t[i]) /\ i > 1 /\ IsEnd(t[i - 1])
         THEN <<cur>> \o re_split(t, RunEnd(t, i), <<>>)
         ELSE re_split(t, i + 1, Append(cur, t[i]))

\* simple_sentence_split(text)
simple_sentence_split(text) ==
    SelectSeq(re_split(strip(text), 1, <<>>), LAMBDA x : x # <<>>)

\* A chunk id that leaves the sequence number out.
chunk_id_without_sequence(rec, sent_id) == <<rec.id, 0>>

\* f"{rec['id']}-{sent_id}": the document's id, a dash and the decimal
\* sequence number.  The text after the last dash is the number, so the
\* string determines the pair and the pair stands for it.
chunk_id(rec, sent_id) == <<rec.id, sent_id>>

\* A test that leaves the separator out of the count.
fits_without_separator(buf, sent, mc) == Len(buf) + Len(sent) <= mc

\* len(buf) + 1 + len(sent) <= max_chars: the sentence and the space before
\* it still fit in the buffer
fits(buf, sent, mc) == Len(buf) + 1 + Len(sent) <= mc

\* The loop of lines 15-23 from sentence i on; st is [buf, sent_id, chunks].
RECURSIVE chunk_loop(_, _, _, _, _)
chunk_loop(rec, sents, i, mc, st) ==
    IF i > Len(sents) THEN st
    ELSE LET sent == sents[i] IN
         chunk_loop(rec, sents, i + 1, mc,
            IF st.buf = <<>>
            THEN [st EXCEPT !.buf = sent]
            ELSE IF fits(st.buf, sent, mc)
            THEN [st EXCEPT !.buf = st.buf \o <<" ">> \o sent]
            ELSE [buf |-> sent,
                  sent_id |-> st.sent_id + 1,
                  chunks |-> Append(st.chunks,
                      [id |-> chunk_id(rec, st.sent_id), text |-> st.buf,
                       meta |-> rec])])

\* chunk_record without the final flush of lines 24-25.
chunk_record_no_flush(rec, mc, acc) ==
    chunk_loop(rec, simple_sentence_split(rec.text), 1, mc,
               [buf |-> <<>>, sent_id |-> 0, chunks |-> acc]).chunks

\* One record of chunk_records (lines 13-25), appended to the list acc.
chunk_record(rec, mc, acc) ==
    LET st == chunk_loop(rec, simple_sentence_split(rec.text), 1, mc,
                         [buf |-> <<>>, sent_id |-> 0, chunks |-> acc])
    IN IF st.buf # <<>>
       THEN Append(st.chunks,
                [id |-> chunk_id(rec, st.sent_id), text |-> st.buf,
                 meta |-> rec])
       ELSE st.chunks

RECURSIVE chunk_from(_, _, _, _)
chunk_from(recs, r, mc, acc) ==
    IF r > Len(recs) THEN acc
    ELSE chunk_from(recs, r + 1, mc, chunk_record(recs[r], mc, acc))

\* chunk_records(records, max_chars)
chunk_records(recs, mc) == chunk_from(recs, 1, mc, <<>>)

\* The inputs of chunk_records: up to MaxDocs records whose texts hold at
\* most MaxTextLen characters in all.  The caller chooses the ids, which the
\* function does not compare: either 1, 2, ... or the same id throughout.
\* ref stands for the identity of the record object, which meta refers to.
TextsOfLen(n) == [1 .. n -> Alphabet]
RECURSIVE TextLists(_, _)
TextLists(docs, chars) ==
    IF docs = 0 THEN {<<>>}
    ELSE {<<>>} \cup
         {<<p[1]>> \o p[2] :
             p \in UNION {TextsOfLen(n) \X TextLists(docs - 1, chars - n) :
                            n \in 0 .. chars}}
RecordsOf(ts, ids) ==
    [r \in DOMAIN ts |-> [id |-> ids[r], text |-> ts[r], ref |-> r]]
RecordLists ==
    {RecordsOf(ts, IF same THEN [r \in DOMAIN ts |-> 1]
                           ELSE [r \in DOMAIN ts |-> r]) :
        ts \in TextLists(MaxDocs, MaxTextLen), same \in BOOLEAN}

(***************************************************************************)
(* The retriever's life: construction, then queries.                       *)
(***************************************************************************)
ChunkerIdle ==
    /\ c_pc = "idle"
    /\ c_exc = "none"
    /\ records = <<>>
    /\ max_chars = 0
    /\ out_chunks = <<>>

RetrieverNew ==
    /\ pc = "new"
    /\ last = "none"
    /\ exc = "none"
    /\ chunks = <<>>
    /\ alpha = None
    /\ emb = None
    /\ bm25 = None
    /\ index = None
    /\ k = None
    /\ v_hits = <<>>
    /\ v_map = EmptyMap
    /\ bm_hits = <<>>
    /\ bm_map = EmptyMap
    /\ v_n = EmptyMap
    /\ bm_n = EmptyMap
    /\ merged = EmptyMap
    /\ hits = <<>>

BM25New ==
    /\ b_pc = "new"
    /\ b_last = "none"
    /\ b_exc = "none"
    /\ b_chunks = <<>>
    /\ b_scores = <<>>
    /\ b_k = None
    /\ b_out = <<>>

IndexNew ==
    /\ i_pc = "new"
    /\ i_last = "none"
    /\ ix_faiss = None
    /\ ix_numpy = None
    /\ i_vectors = <<>>
    /\ i_adds = 0
    /\ X_faiss = <<>>
    /\ X_numpy = <<>>
    /\ i_q = None
    /\ i_k = None
    /\ out_faiss = <<>>
    /\ out_numpy = <<>>
    /\ exc_faiss = "none"
    /\ exc_numpy = "none"

EmbeddingsNew ==
    /\ e_pc = "new"
    /\ e_last = "none"
    /\ e_arg = None
    /\ e_emb = None
    /\ e_exc = "none"
    /\ e_texts = <<>>
    /\ e_out = <<>>
    /\ e_prev_texts = <<>>
    /\ e_prev_out = <<>>

\* The callers of the concurrent queries.
Threads == {1, 2}

\* One activation for all callers, as if the locals were attributes of the
\* retriever.
frame_on_self(t) == 1

\* The activation a caller's query runs in: every call has its own, which
\* holds k, the query's scores and the locals of lines 38-67.
frame(t) == t

NoFrame ==
    [k |-> None, sims |-> <<>>, bms |-> <<>>, v_hits |-> <<>>,
     v_map |-> EmptyMap, bm_hits |-> <<>>, bm_map |-> EmptyMap,
     merged |-> EmptyMap]

CallersIdle ==
    /\ t_pc = [t \in Threads |-> "idle"]
    /\ t_args = [t \in Threads |-> None]
    /\ t_ret = [t \in Threads |-> <<>>]
    /\ frames = [f \in Threads |-> NoFrame]

EvaluatorNew ==
    /\ m_pc = "new"
    /\ m_last = "none"
    /\ m_results = <<>>
    /\ m_k = None
    /\ m_value = None

IngesterNew ==
    /\ d_pc = "new"
    /\ chunk_size = None
    /\ overlap = None
    /\ overlap_tokens = None
    /\ words = <<>>
    /\ start_idx = None
    /\ chunk_num = None
    /\ d_chunks = <<>>

GuardianNew ==
    /\ g_pc = "new"
    /\ g_last = "none"
    /\ allowlist = <<>>
    /\ redact_outputs = FALSE
    /\ g_name = None
    /\ g_runs = 0
    /\ g_func = None
    /\ g_ret = None

AuditNew ==
    /\ a_pc = "new"
    /\ a_last = "none"
    /\ a_today = 0
    /\ a_current = None
    /\ retention_days = None
    /\ a_files = EmptyMap
    /\ a_args = None
    /\ a_ids = 0

RotateIdle ==
    /\ r_pc = "idle"
    /\ r_args = None
    /\ r_before = EmptyMap
    /\ r_dir = EmptyMap

\* Nothing is constructed and no call was made.
AllNew ==
    /\ RetrieverNew
    /\ ChunkerIdle
    /\ BM25New
    /\ IndexNew
    /\ EmbeddingsNew
    /\ CallersIdle
    /\ EvaluatorNew
    /\ IngesterNew
    /\ GuardianNew
    /\ AuditNew
    /\ RotateIdle

Init ==
    /\ installed \in SUBSET Libs
    /\ AllNew

\* HybridRetriever.__init__(chunks, alpha, emb=None), build_vector_index
Construct ==
    /\ pc = "new"
    /\ \E n \in CorpusSizes, arg \in Alphas \cup {NoArg},
          env \in Alphas \cup {NoArg},
          backend \in {None} :
        LET ch == [i \in 1 .. n |-> i]
            e == Embeddings_init(backend, installed)
            bmx == BM25Retriever_init(n, installed)
            ix0 == FaissIndex_init("ip", installed)
            encx == Embeddings_encode(e)
            addx == FaissIndex_add_exc(ix0, n)
            raised == IF bmx # "none" THEN bmx
                      ELSE IF encx # "ok" THEN encx
                      ELSE addx
        IN /\ chunks' = ch
           /\ alpha' = ctor_alpha(arg, env)
           /\ emb' = e
           /\ bm25' = IF bmx = "none" THEN [corpus_size |-> n] ELSE None
           /\ index' = IF raised = "none" THEN FaissIndex_add(ix0, ch, n)
                       ELSE None
           /\ exc' = raised
           /\ pc' = IF raised = "none" THEN "built" ELSE "ctor_raised"
           /\ last' = "init"
    /\ UNCHANGED <<installed, k, v_hits, v_map, bm_hits, bm_map, v_n, bm_n,
                   merged, hits>>
    /\ UNCHANGED NotRetriever

\* HybridRetriever.query(q, k), called on a retriever that is not in a call
Query ==
    /\ pc = "built"
    /\ last = "init"
    /\ \E kk \in QueryKs,
          sims \in ScoreVectors(Len(chunks)),
          bms \in ScoreVectors(Len(chunks)) :
        LET encx == Embeddings_encode(emb)
            srx == FaissIndex_search_exc(index)
            raised == IF encx # "ok" THEN encx ELSE srx
        IN IF raised # "none"
           THEN /\ exc' = raised
                /\ k' = kk
                /\ UNCHANGED <<v_hits, v_map, bm_hits, bm_map, v_n, bm_n,
                               merged, hits>>
           ELSE /\ exc' = "none"
                /\ k' = kk
                /\ v_hits' \in FaissIndex_search(index, sims, fetch(kk))
                /\ v_map' = ToMap(v_hits')
                /\ bm_hits' = BM25Retriever_query(chunks, bms, fetch(kk))
                /\ bm_map' = ToMap(bm_hits')
                /\ v_n' = norm(v_map')
                /\ bm_n' = norm(bm_map')
                /\ merged' = merge(alpha, v_map', bm_map', v_n', bm_n')
                /\ \E srt \in merged_sort(merged') :
                      hits' = materialize(Slice(srt, kk), merged',
                                          v_map', bm_map')
    /\ last' = "query"
    /\ UNCHANGED <<installed, pc, chunks, alpha, emb, bm25, index>>
    /\ UNCHANGED NotRetriever

\* The call has returned: its locals are gone and the caller is done with
\* the list (or the exception); the retriever itself is as it was.
Return ==
    /\ last = "query"
    /\ last' = "init"
    /\ exc' = "none"
    /\ k' = None
    /\ v_hits' = <<>>
    /\ v_map' = EmptyMap
    /\ bm_hits' = <<>>
    /\ bm_map' = EmptyMap
    /\ v_n' = EmptyMap
    /\ bm_n' = EmptyMap
    /\ merged' = EmptyMap
    /\ hits' = <<>>
    /\ UNCHANGED <<installed, pc, chunks, alpha, emb, bm25, index>>
    /\ UNCHANGED NotRetriever

Next == Construct \/ Query \/ Return

Spec == Init /\ [][Next]_vars

(***************************************************************************)
(* The chunker on its own: chunk_records is a pure function of its inputs. *)
(***************************************************************************)
InitChunk ==
    /\ installed = Libs
    /\ AllNew

\* chunk_records(records, max_chars)
Chunk ==
    /\ c_pc = "idle"
    /\ \E recs \in RecordLists, mc \in -1 .. MaxChars :
          /\ records' = recs
          /\ max_chars' = mc
          /\ out_chunks' = chunk_records(recs, mc)
    /\ c_exc' = "none"
    /\ c_pc' = "done"
    /\ UNCHANGED NotChunker

\* The caller is done with the list.
ChunkReturn ==
    /\ c_pc = "done"
    /\ c_pc' = "idle"
    /\ c_exc' = "none"
    /\ records' = <<>>
    /\ max_chars' = 0
    /\ out_chunks' = <<>>
    /\ UNCHANGED NotChunker

NextChunk == Chunk \/ ChunkReturn

SpecChunk == InitChunk /\ [][NextChunk]_vars

(***************************************************************************)
(* A BM25Retriever used directly.  A corpus is its number of chunks, a     *)
(* query the score get_scores gives every chunk.                           *)
(***************************************************************************)
BM25Sizes == {0, 1, 2, 3}

\* BM25Retriever(chunks)
BM25Construct ==
    /\ b_pc = "new"
    /\ \E n \in BM25Sizes :
          LET raised == BM25Retriever_init(n, installed)
          IN /\ b_chunks' = [i \in 1 .. n |-> i]
             /\ b_exc' = raised
             /\ b_pc' = IF raised = "none" THEN "built" ELSE "ctor_raised"
    /\ b_last' = "init"
    /\ UNCHANGED <<b_scores, b_k, b_out>>
    /\ UNCHANGED NotBM25

\* BM25Retriever.query(q, k)
BM25Query ==
    /\ b_pc = "built"
    /\ b_last = "init"
    /\ \E kk \in KValues, scores \in [DOMAIN b_chunks -> Scores] :
          /\ b_k' = kk
          /\ b_scores' = scores
          /\ b_out' = BM25Retriever_query(b_chunks, scores, kk)
    /\ b_exc' = "none"
    /\ b_last' = "query"
    /\ UNCHANGED <<b_pc, b_chunks>>
    /\ UNCHANGED NotBM25

\* The caller is done with the list.
BM25Return ==
    /\ b_last = "query"
    /\ b_last' = "init"
    /\ b_exc' = "none"
    /\ b_scores' = <<>>
    /\ b_k' = None
    /\ b_out' = <<>>
    /\ UNCHANGED <<b_pc, b_chunks>>
    /\ UNCHANGED NotBM25

NextBM25 == BM25Construct \/ BM25Query \/ BM25Return

SpecBM25 == Init /\ [][NextBM25]_vars

(***************************************************************************)
(* A FaissIndex used directly, once in a process that has faiss and once   *)
(* in one that has not, both given the same calls.                         *)
(***************************************************************************)
IndexSizes == {0, 1, 2}
\* The add calls an index receives: a first and a second.
IndexAddCalls == {1, 2}

InitIndex ==
    /\ installed = Libs
    /\ AllNew

\* FaissIndex(dim, metric)
IndexConstruct ==
    /\ i_pc = "new"
    /\ \E metric \in {"ip", "l2"} :
          /\ ix_faiss' = FaissIndex_init(metric, {"faiss"})
          /\ ix_numpy' = FaissIndex_init(metric, {})
    /\ i_pc' = "constructed"
    /\ i_last' = "init"
    /\ UNCHANGED <<i_vectors, i_adds, X_faiss, X_numpy, i_q, i_k, out_faiss,
                   out_numpy, exc_faiss, exc_numpy>>
    /\ UNCHANGED NotIndex

\* add(ids, vectors) on both, with as many ids as vectors: a vector's id is
\* its place among all vectors passed so far.
IndexAdd ==
    /\ i_pc \in {"constructed", "added"}
    /\ i_last \in {"init", "add"}
    /\ i_adds + 1 \in IndexAddCalls
    /\ \E n \in IndexSizes : \E vs \in [1 .. n -> Vectors] :
          LET ids == [i \in 1 .. n |-> Len(i_vectors) + i]
              f == FaissIndex_add_vectors(ix_faiss, X_faiss, ids, vs)
              np == FaissIndex_add_vectors(ix_numpy, X_numpy, ids, vs)
          IN /\ Len(i_vectors) + n \in IndexSizes
             /\ i_vectors' = i_vectors \o vs
             /\ exc_faiss' = f.exc
             /\ exc_numpy' = np.exc
             /\ ix_faiss' = f.ix
             /\ X_faiss' = f.X
             /\ ix_numpy' = np.ix
             /\ X_numpy' = np.X
    /\ i_adds' = i_adds + 1
    /\ i_pc' = "added"
    /\ i_last' = "add"
    /\ UNCHANGED <<i_q, i_k, out_faiss, out_numpy>>
    /\ UNCHANGED NotIndex

\* search([q], k)[0] on both
IndexSearch ==
    /\ i_pc = "added"
    /\ i_last = "add"
    /\ \E q \in Vectors, kk \in KValues :
          LET fx == FaissIndex_search_k_exc(ix_faiss, kk)
              nx == FaissIndex_search_matmul_exc(ix_numpy, X_numpy, q)
          IN /\ i_q' = q
             /\ i_k' = kk
             /\ \E top \in IF fx # "none" THEN {<<>>}
                            ELSE FaissIndex_search_rows(ix_faiss, X_faiss,
                                                        q, kk) :
                   LET ix == FaissIndex_search_ids_exc(ix_faiss, top) IN
                   /\ exc_faiss' = IF fx # "none" THEN fx ELSE ix
                   /\ out_faiss' =
                         IF fx # "none" \/ ix # "none" THEN <<>>
                         ELSE FaissIndex_search_pairs(ix_faiss, X_faiss,
                                                      q, top)
             /\ \E top \in IF nx # "none" THEN {<<>>}
                            ELSE FaissIndex_search_rows(ix_numpy, X_numpy,
                                                        q, kk) :
                   LET ix == FaissIndex_search_ids_exc(ix_numpy, top) IN
                   /\ exc_numpy' = IF nx # "none" THEN nx ELSE ix
                   /\ out_numpy' =
                         IF nx # "none" \/ ix # "none" THEN <<>>
                         ELSE FaissIndex_search_pairs(ix_numpy, X_numpy,
                                                      q, top)
    /\ i_last' = "search"
    /\ UNCHANGED <<i_pc, ix_faiss, ix_numpy, i_vectors, i_adds, X_faiss,
                   X_numpy>>
    /\ UNCHANGED NotIndex

\* The callers are done with the lists.
IndexReturn ==
    /\ i_last = "search"
    /\ i_last' = "add"
    /\ i_q' = None
    /\ i_k' = None
    /\ out_faiss' = <<>>
    /\ out_numpy' = <<>>
    /\ exc_faiss' = "none"
    /\ exc_numpy' = "none"
    /\ UNCHANGED <<i_pc, ix_faiss, ix_numpy, i_vectors, i_adds, X_faiss,
                   X_numpy>>
    /\ UNCHANGED NotIndex

NextIndex == IndexConstruct \/ IndexAdd \/ IndexSearch \/ IndexReturn

SpecIndex == InitIndex /\ [][NextIndex]_vars

(***************************************************************************)
(* An Embeddings provider used directly: providers are constructed one     *)
(* after the other and each encodes batches of texts.                      *)
(***************************************************************************)
EmbTexts == {<<>>, <<"a">>, <<"a", ".">>}
EmbBatches == {<<>>} \cup [{1} -> EmbTexts] \cup [{1, 2} -> EmbTexts]

InitEmbed ==
    /\ installed \in {Libs, Libs \ {"sentence_transformers"}}
    /\ AllNew

\* Embeddings(backend=b)
EmbConstruct ==
    /\ e_pc = "new"
    /\ \E b \in {None, "stub", "fake"} :
          /\ e_arg' = b
          /\ e_emb' = Embeddings_init(b, installed)
    /\ e_pc' = "built"
    /\ e_last' = "init"
    /\ UNCHANGED <<e_exc, e_texts, e_out, e_prev_texts, e_prev_out>>
    /\ UNCHANGED NotEmbeddings

\* encode(texts)
EmbEncode ==
    /\ e_pc = "built"
    /\ e_last = "init"
    /\ \E texts \in EmbBatches :
          /\ e_texts' = texts
          /\ e_exc' = IF Embeddings_encode(e_emb) = "ok" THEN "none"
                      ELSE Embeddings_encode(e_emb)
          /\ e_out' = IF Embeddings_encode(e_emb) = "ok"
                      THEN Embeddings_encode_vectors(e_emb, texts)
                      ELSE <<>>
    /\ e_last' = "encode"
    /\ UNCHANGED <<e_pc, e_arg, e_emb, e_prev_texts, e_prev_out>>
    /\ UNCHANGED NotEmbeddings

\* The caller is done with the vectors; those of a stub encode are kept
\* aside to compare later ones with.
EmbReturn ==
    /\ e_last = "encode"
    /\ e_last' = "init"
    /\ IF e_exc = "none" /\ e_emb.backend \in {"stub", "fake"}
       THEN e_prev_texts' = e_texts /\ e_prev_out' = e_out
       ELSE UNCHANGED <<e_prev_texts, e_prev_out>>
    /\ e_exc' = "none"
    /\ e_texts' = <<>>
    /\ e_out' = <<>>
    /\ UNCHANGED <<e_pc, e_arg, e_emb>>
    /\ UNCHANGED NotEmbeddings

\* The provider is dropped; the next one is constructed afresh.
EmbDrop ==
    /\ e_pc = "built"
    /\ e_last = "init"
    /\ e_pc' = "new"
    /\ e_last' = "none"
    /\ e_arg' = None
    /\ e_emb' = None
    /\ UNCHANGED <<e_exc, e_texts, e_out, e_prev_texts, e_prev_out>>
    /\ UNCHANGED NotEmbeddings

NextEmbed == EmbConstruct \/ EmbEncode \/ EmbReturn \/ EmbDrop

SpecEmbed == InitEmbed /\ [][NextEmbed]_vars

(***************************************************************************)
(* Concurrent queries on one built retriever: each caller's call runs the  *)
(* statements of query one after the other, the calls interleaving between *)
(* them.  A query is the scores it gives the chunks; the corpus has two    *)
(* chunks.                                                                 *)
(***************************************************************************)
ConcScores == [{1, 2} -> {0, MaxScore}]
ConcKs == 1 .. MaxK

InitConc ==
    /\ installed \in {Libs, {"rank_bm25"}}
    /\ AllNew

\* HybridRetriever(chunks) over two chunks, alpha by default
ConcConstruct ==
    /\ pc = "new"
    /\ chunks' = <<1, 2>>
    /\ alpha' = ctor_alpha(NoArg, NoArg)
    /\ emb' = Embeddings_init(None, installed)
    /\ bm25' = [corpus_size |-> 2]
    /\ index' = FaissIndex_add(FaissIndex_init("ip", installed), <<1, 2>>, 2)
    /\ exc' = BM25Retriever_init(2, installed)
    /\ pc' = "built"
    /\ last' = "init"
    /\ UNCHANGED <<installed, k, v_hits, v_map, bm_hits, bm_map, v_n, bm_n,
                   merged, hits>>
    /\ UNCHANGED tvars
    /\ UNCHANGED NotCallers

\* query(q, k) is entered; line 38
QueryCall ==
    /\ pc = "built"
    /\ \E t \in Threads :
          /\ t_pc[t] = "idle"
          /\ \E kk \in ConcKs, sims \in ConcScores, bms \in ConcScores :
                /\ t_args' = [t_args EXCEPT
                                 ![t] = [k |-> kk, sims |-> sims, bms |-> bms]]
                /\ frames' = [frames EXCEPT ![frame(t)] =
                      [NoFrame EXCEPT !.k = kk, !.sims = sims, !.bms = bms]]
          /\ t_pc' = [t_pc EXCEPT ![t] = "encoded"]
    /\ UNCHANGED t_ret
    /\ UNCHANGED hvars
    /\ UNCHANGED NotCallers

\* lines 39-41
QuerySearch ==
    /\ \E t \in Threads :
          /\ t_pc[t] = "encoded"
          /\ \E vh \in FaissIndex_search(index, frames[frame(t)].sims,
                                          fetch(frames[frame(t)].k)) :
                frames' = [frames EXCEPT ![frame(t)].v_hits = vh,
                                         ![frame(t)].v_map = ToMap(vh)]
          /\ t_pc' = [t_pc EXCEPT ![t] = "searched"]
    /\ UNCHANGED <<t_args, t_ret>>
    /\ UNCHANGED hvars
    /\ UNCHANGED NotCallers

\* lines 43-44
QueryBM25 ==
    /\ \E t \in Threads :
          /\ t_pc[t] = "searched"
          /\ LET bh == BM25Retriever_query(chunks, frames[frame(t)].bms,
                                           fetch(frames[frame(t)].k))
             IN frames' = [frames EXCEPT ![frame(t)].bm_hits = bh,
                                         ![frame(t)].bm_map = ToMap(bh)]
          /\ t_pc' = [t_pc EXCEPT ![t] = "scored"]
    /\ UNCHANGED <<t_args, t_ret>>
    /\ UNCHANGED hvars
    /\ UNCHANGED NotCallers

\* lines 56-64
QueryFuse ==
    /\ \E t \in Threads :
          /\ t_pc[t] = "scored"
          /\ LET f == frames[frame(t)]
             IN frames' = [frames EXCEPT ![frame(t)].merged =
                    merge(alpha, f.v_map, f.bm_map, norm(f.v_map),
                          norm(f.bm_map))]
          /\ t_pc' = [t_pc EXCEPT ![t] = "merged"]
    /\ UNCHANGED <<t_args, t_ret>>
    /\ UNCHANGED hvars
    /\ UNCHANGED NotCallers

\* lines 66-77: the call returns its list
QueryFinish ==
    /\ \E t \in Threads :
          /\ t_pc[t] = "merged"
          /\ LET f == frames[frame(t)]
             IN \E srt \in merged_sort(f.merged) :
                   t_ret' = [t_ret EXCEPT ![t] =
                       materialize(Slice(srt, f.k), f.merged, f.v_map,
                                   f.bm_map)]
          /\ t_pc' = [t_pc EXCEPT ![t] = "done"]
    /\ UNCHANGED <<t_args, frames>>
    /\ UNCHANGED hvars
    /\ UNCHANGED NotCallers

\* The caller is done with the list and the activation is gone.
QueryDone ==
    /\ \E t \in Threads :
          /\ t_pc[t] = "done"
          /\ t_pc' = [t_pc EXCEPT ![t] = "idle"]
          /\ t_args' = [t_args EXCEPT ![t] = None]
          /\ t_ret' = [t_ret EXCEPT ![t] = <<>>]
          /\ frames' = [frames EXCEPT ![frame(t)] = NoFrame]
    /\ UNCHANGED hvars
    /\ UNCHANGED NotCallers

NextConc ==
    \/ ConcConstruct
    \/ QueryCall
    \/ QuerySearch
    \/ QueryBM25
    \/ QueryFuse
    \/ QueryFinish
    \/ QueryDone

SpecConc == InitConc /\ [][NextConc]_vars

(***************************************************************************)
(* A RetrievalEvaluator: results are added, then metrics are asked for.    *)
(* Documents are 1 and 2; a result holds up to three retrieved and up to   *)
(* two relevant ids, and up to two results are added.                      *)
(***************************************************************************)
EvalDocs == {1, 2}
RetrievedLists == UNION {[1 .. n -> EvalDocs] : n \in {0, 1, 2, 3}}
RelevantLists == UNION {[1 .. n -> EvalDocs] : n \in {0, 1, 2}}

\* The metric calls of the evaluator.
MetricCalls ==
    {"hit_at_k", "mrr_at_k", "precision_at_k", "recall_at_k", "f1_at_k"}

InitEval ==
    /\ installed = Libs
    /\ AllNew

\* RetrievalEvaluator()
EvalConstruct ==
    /\ m_pc = "new"
    /\ m_pc' = "built"
    /\ m_last' = "init"
    /\ m_results' = <<>>
    /\ UNCHANGED <<m_k, m_value>>
    /\ UNCHANGED NotEvaluator

\* add_result(query, retrieved_docs, relevant_docs)
EvalAddResult ==
    /\ m_pc = "built"
    /\ m_last \in {"init", "add_result"}
    /\ Len(m_results) < 2
    /\ \E ret \in RetrievedLists, rel \in RelevantLists :
          m_results' = Append(m_results,
                              [retrieved_docs |-> ret, relevant_docs |-> rel])
    /\ m_last' = "add_result"
    /\ UNCHANGED <<m_pc, m_k, m_value>>
    /\ UNCHANGED NotEvaluator

\* precision_at_k(k)
EvalPrecision ==
    /\ m_pc = "built"
    /\ m_last \in {"init", "add_result"}
    /\ \E kk \in KValues :
          /\ m_k' = kk
          /\ m_value' = precision_at_k(m_results, kk)
    /\ m_last' = "precision_at_k"
    /\ UNCHANGED <<m_pc, m_results>>
    /\ UNCHANGED NotEvaluator

\* hit_at_k(k)
EvalHit ==
    /\ m_pc = "built"
    /\ m_last \in {"init", "add_result"}
    /\ \E kk \in KValues :
          /\ m_k' = kk
          /\ m_value' = hit_at_k(m_results, kk)
    /\ m_last' = "hit_at_k"
    /\ UNCHANGED <<m_pc, m_results>>
    /\ UNCHANGED NotEvaluator

\* mrr_at_k(k)
EvalMRR ==
    /\ m_pc = "built"
    /\ m_last \in {"init", "add_result"}
    /\ \E kk \in KValues :
          /\ m_k' = kk
          /\ m_value' = mrr_at_k(m_results, kk)
    /\ m_last' = "mrr_at_k"
    /\ UNCHANGED <<m_pc, m_results>>
    /\ UNCHANGED NotEvaluator

\* recall_at_k(k)
EvalRecall ==
    /\ m_pc = "built"
    /\ m_last \in {"init", "add_result"}
    /\ \E kk \in KValues :
          /\ m_k' = kk
          /\ m_value' = recall_at_k(m_results, kk)
    /\ m_last' = "recall_at_k"
    /\ UNCHANGED <<m_pc, m_results>>
    /\ UNCHANGED NotEvaluator

\* f1_at_k(k)
EvalF1 ==
    /\ m_pc = "built"
    /\ m_last \in {"init", "add_result"}
    /\ \E kk \in KValues :
          /\ m_k' = kk
          /\ m_value' = f1_at_k(m_results, kk)
    /\ m_last' = "f1_at_k"
    /\ UNCHANGED <<m_pc, m_results>>
    /\ UNCHANGED NotEvaluator

\* The caller is done with the number.
EvalReturn ==
    /\ m_last \in MetricCalls
    /\ m_last' = "add_result"
    /\ m_k' = None
    /\ m_value' = None
    /\ UNCHANGED <<m_pc, m_results>>
    /\ UNCHANGED NotEvaluator

NextEval ==
    \/ EvalConstruct \/ EvalAddResult \/ EvalPrecision \/ EvalHit \/ EvalMRR
    \/ EvalRecall \/ EvalF1 \/ EvalReturn

SpecEval == InitEval /\ [][NextEval]_vars

(***************************************************************************)
(* rag/ingest.py: DocumentIngester.  A text is the list of its words, as   *)
(* text.split() gives it; the i-th word is i.  chunk_text runs its loop    *)
(* one iteration per step.                                                 *)
(***************************************************************************)
\* The overlap ratios of the model: float holds each exactly.
Overlaps == {Rat(0, 1), Rat(1, 2), Rat(3, 4), Rat(1, 1)}

\* int(chunk_size * overlap) of a ratio that is not negative
overlap_tokens_of(cs, ov) == (cs * ov[1]) \div ov[2]

\* _generate_chunk_id(doc_id, chunk_num, word_count) within one document:
\* the digest of f"{doc_id}_{chunk_num}_{word_count}" stands for the pair.
generate_chunk_id(num, word_count) == <<num, word_count>>

\* lines 56-64: the chunk of a text of at most chunk_size words, whose
\* end_pos is the text's length in characters
single_chunk(ws) ==
    [content |-> ws, chunk_id |-> generate_chunk_id(0, Len(ws)),
     start_pos |-> 0, end_pos |-> "len(text)",
     metadata |-> [word_count |-> Len(ws)]]

\* lines 73-89: the chunk of the iteration that starts at word start
loop_chunk(ws, cs, start, num) ==
    LET end_idx == Min(start + cs, Len(ws))
        chunk_words == SubSeq(ws, start + 1, end_idx)
    IN [content |-> chunk_words,
        chunk_id |-> generate_chunk_id(num, Len(chunk_words)),
        start_pos |-> start, end_pos |-> end_idx,
        metadata |-> [word_count |-> Len(chunk_words),
                      chunk_number |-> num,
                      total_chunks |-> (Len(ws) + cs - 1) \div cs]]

InitIngest ==
    /\ installed = Libs
    /\ AllNew

\* DocumentIngester(chunk_size, overlap)
IngesterConstruct ==
    /\ d_pc = "new"
    /\ \E cs \in 1 .. MaxChunkSize, ov \in Overlaps :
          /\ chunk_size' = cs
          /\ overlap' = ov
          /\ overlap_tokens' = overlap_tokens_of(cs, ov)
    /\ d_pc' = "built"
    /\ UNCHANGED <<words, start_idx, chunk_num, d_chunks>>
    /\ UNCHANGED NotIngester

\* chunk_text(text, doc_id) up to the loop: lines 51-70
ChunkTextCall ==
    /\ d_pc = "built"
    /\ \E n \in 0 .. MaxWords :
          LET ws == [i \in 1 .. n |-> i] IN
          /\ words' = ws
          /\ IF n <= chunk_size
             THEN /\ d_chunks' = <<single_chunk(ws)>>
                  /\ d_pc' = "done"
                  /\ UNCHANGED <<start_idx, chunk_num>>
             ELSE /\ d_chunks' = <<>>
                  /\ start_idx' = 0
                  /\ chunk_num' = 0
                  /\ d_pc' = "looping"
    /\ UNCHANGED <<chunk_size, overlap, overlap_tokens>>
    /\ UNCHANGED NotIngester

\* One iteration of the loop of lines 72-98, or its exit.  A run that has
\* appended more chunks than the text has words goes on for ever; the model
\* follows it for MaxWords + 1 chunks.
ChunkTextLoop ==
    /\ d_pc = "looping"
    /\ Len(d_chunks) <= MaxWords
    /\ IF start_idx < Len(words)
       THEN LET chunk == loop_chunk(words, chunk_size, start_idx, chunk_num)
                next_idx == chunk.end_pos - overlap_tokens
            IN /\ d_chunks' = Append(d_chunks, chunk)
               /\ start_idx' = next_idx
               /\ chunk_num' = chunk_num + 1
               /\ d_pc' = IF next_idx >= Len(words) - overlap_tokens
                          THEN "done" ELSE "looping"
       ELSE /\ d_pc' = "done"
            /\ UNCHANGED <<d_chunks, start_idx, chunk_num>>
    /\ UNCHANGED <<chunk_size, overlap, overlap_tokens, words>>
    /\ UNCHANGED NotIngester

\* The caller is done with the list.
ChunkTextReturn ==
    /\ d_pc = "done"
    /\ d_pc' = "built"
    /\ words' = <<>>
    /\ start_idx' = None
    /\ chunk_num' = None
    /\ d_chunks' = <<>>
    /\ UNCHANGED <<chunk_size, overlap, overlap_tokens>>
    /\ UNCHANGED NotIngester

NextIngest ==
    IngesterConstruct \/ ChunkTextCall \/ ChunkTextLoop \/ ChunkTextReturn

SpecIngest == InitIngest /\ [][NextIngest]_vars

(***************************************************************************)
(* security/guardian.py.  A string is the list of its words; the words of  *)
(* the model are such that a pattern matches a whole word or none of it.   *)
(* A Python value is [t, v]: a str, a list of values, a dict from keys to  *)
(* values, or an int.                                                      *)
(***************************************************************************)
PlainWords == {"ok"}
SsnWords == {"123-45-6789"}       \* \b\d{3}-\d{2}-\d{4}\b
CcWords == {"1234-5678-9012-3456"} \* \b\d{4}-\d{4}-\d{4}-\d{4}\b
EmailWords == {"bob@example.com"}
PhoneWords == {"555-123-4567"}    \* \b\d{3}-\d{3}-\d{4}\b
PiiWords == SsnWords \cup CcWords \cup EmailWords \cup PhoneWords

PyStr(ws) == [t |-> "str", v |-> ws]
PyList(vs) == [t |-> "list", v |-> vs]
PyDict(d) == [t |-> "dict", v |-> d]
PyInt(n) == [t |-> "int", v |-> n]

\* re.sub(pattern, repl, text) for a pattern that matches the words of S
re_sub(S, repl, text) ==
    [i \in DOMAIN text |-> IF text[i] \in S THEN repl ELSE text[i]]

\* Guardian._redact_string(text)
Guardian_redact_string(text) ==
    re_sub(PhoneWords, "[REDACTED-PHONE]",
      re_sub(EmailWords, "[REDACTED-EMAIL]",
        re_sub(CcWords, "[REDACTED-CC]",
          re_sub(SsnWords, "[REDACTED-SSN]", text))))

\* Guardian._redact_output(data)
RECURSIVE Guardian_redact_output(_, _)
Guardian_redact_output(redact, data) ==
    IF ~redact THEN data
    ELSE IF data.t = "dict"
    THEN PyDict([key \in DOMAIN data.v |->
                  Guardian_redact_output(redact, data.v[key])])
    ELSE IF data.t = "list"
    THEN PyList([i \in DOMAIN data.v |->
                  Guardian_redact_output(redact, data.v[i])])
    ELSE IF data.t = "str" THEN PyStr(Guardian_redact_string(data.v))
    ELSE data

\* Guardian._load_allowlist() where the pieces of GUARDIAN_ALLOW_TOOLS
\* between the commas are env; <<>> is the variable unset or empty, " " a
\* piece of blanks.
Guardian_load_allowlist(env) ==
    IF env = <<>> THEN <<"health", "tools/summarize">>
    ELSE SelectSeq(env, LAMBDA tool : tool # " ")

\* str.lower() on the values of the model
lower(s) == IF s = "TRUE" THEN "true" ELSE s

\* os.getenv("GUARDIAN_REDACT_OUTPUTS", "true").lower() == "true", env
\* being None when the variable is unset
Guardian_redact_flag(env) ==
    lower(IF env = None THEN "true" ELSE env) = "true"

\* A guardian that lets every tool through.
Guardian_allows_any(al, tool_name) == TRUE

\* Guardian.is_tool_allowed(tool_name)
Guardian_is_tool_allowed(al, tool_name) == tool_name \in Range(al)

Unauthorized(tool_name) ==
    PyDict([error |-> PyStr(<<"Unauthorized">>),
          message |-> PyStr(<<"Tool", tool_name, "is", "not", "allowed", "by",
                            "security", "policy">>)])

InternalError ==
    PyDict([error |-> PyStr(<<"Internal", "error">>),
          message |-> PyStr(<<"An", "error", "occurred", "processing", "the",
                            "request">>)])

\* The wrapper of guard_tool(tool_name)(func), called while func is about
\* to behave as outcome says: [runs, ret], how often func ran and what the
\* wrapper returned.
Guardian_wrapper(al, redact, tool_name, outcome) ==
    IF ~Guardian_is_tool_allowed(al, tool_name)
    THEN [runs |-> 0, ret |-> Unauthorized(tool_name)]
    ELSE IF outcome.raised
    THEN [runs |-> 1, ret |-> InternalError]
    ELSE [runs |-> 1, ret |-> Guardian_redact_output(redact, outcome.value)]

\* The tools, the environment and the wrapped functions of the model.
ToolNames == {"health", "tools/summarize", "search"}
AllowEnvs ==
    {<<>>, <<" ">>, <<"search">>, <<"search", " ">>, <<"health", "search">>}
RedactEnvs == {None, "true", "TRUE", "false", "1"}
GuardedWords == {<<"ok">>, <<"123-45-6789">>, <<"ok", "bob@example.com">>,
                 <<"555-123-4567">>, <<"1234-5678-9012-3456">>}
GuardedValues ==
    {PyStr(ws) : ws \in GuardedWords}
      \cup {PyDict([text |-> PyStr(ws), n |-> PyInt(7)]) : ws \in GuardedWords}
      \cup {PyList(<<PyStr(ws), PyDict([error |-> PyStr(<<"Unauthorized">>)])>>) :
              ws \in GuardedWords}
FuncOutcomes ==
    {[raised |-> FALSE, value |-> v] : v \in GuardedValues}
      \cup {[raised |-> TRUE, value |-> PyStr(<<"ValueError">>)]}

InitGuard ==
    /\ installed = Libs
    /\ AllNew

\* Guardian()
GuardianConstruct ==
    /\ g_pc = "new"
    /\ \E ae \in AllowEnvs, re \in RedactEnvs :
          /\ allowlist' = Guardian_load_allowlist(ae)
          /\ redact_outputs' = Guardian_redact_flag(re)
    /\ g_pc' = "built"
    /\ g_last' = "init"
    /\ UNCHANGED <<g_name, g_runs, g_func, g_ret>>
    /\ UNCHANGED NotGuardian

\* A call of guard_tool(tool_name)(func)
GuardedCall ==
    /\ g_pc = "built"
    /\ g_last = "init"
    /\ \E tool_name \in ToolNames, outcome \in FuncOutcomes :
          LET w == Guardian_wrapper(allowlist, redact_outputs, tool_name,
                                    outcome)
          IN /\ g_name' = tool_name
             /\ g_func' = IF w.runs = 0 THEN None ELSE outcome
             /\ g_runs' = w.runs
             /\ g_ret' = w.ret
    /\ g_last' = "call"
    /\ UNCHANGED <<g_pc, allowlist, redact_outputs>>
    /\ UNCHANGED NotGuardian

\* The caller is done with what the wrapper returned.
GuardedReturn ==
    /\ g_last = "call"
    /\ g_last' = "init"
    /\ g_name' = None
    /\ g_runs' = 0
    /\ g_func' = None
    /\ g_ret' = None
    /\ UNCHANGED <<g_pc, allowlist, redact_outputs>>
    /\ UNCHANGED NotGuardian

NextGuard == GuardianConstruct \/ GuardedCall \/ GuardedReturn

SpecGuard == InitGuard /\ [][NextGuard]_vars

(***************************************************************************)
(* security/redact.py and obs/audit.py: the PII redactor and the           *)
(* AuditLogger.  Strings and values are as for the Guardian.  A log file   *)
(* is named by its day and its suffix; the clock is the day of             *)
(* datetime.utcnow(), and a file's age is counted from its mtime in days.  *)
(***************************************************************************)
IpWords == {"10.0.0.1"}            \* \b(?:[0-9]{1,3}\.){3}[0-9]{1,3}\b

\* PIIRedactor.find_pii and redact_text: every match is replaced by
\* [REDACTED-<TYPE>]; a word of the model matches under one type at most.
PIIRedactor_redact_text(text) ==
    [i \in DOMAIN text |->
        IF text[i] \in SsnWords THEN "[REDACTED-SSN]"
        ELSE IF text[i] \in CcWords THEN "[REDACTED-CREDIT_CARD]"
        ELSE IF text[i] \in EmailWords THEN "[REDACTED-EMAIL]"
        ELSE IF text[i] \in PhoneWords THEN "[REDACTED-PHONE]"
        ELSE IF text[i] \in IpWords THEN "[REDACTED-IP_ADDRESS]"
        ELSE text[i]]

\* AuditLogger._sanitize_data(data)
RECURSIVE AuditLogger_sanitize_data(_)
AuditLogger_sanitize_data(data) ==
    IF data.t = "dict"
    THEN PyDict([key \in DOMAIN data.v |->
                    AuditLogger_sanitize_data(data.v[key])])
    ELSE IF data.t = "list"
    THEN PyList([i \in DOMAIN data.v |-> AuditLogger_sanitize_data(data.v[i])])
    ELSE IF data.t = "str" THEN PyStr(PIIRedactor_redact_text(data.v))
    ELSE data

\* lines 162-170: the input_data of the event log_security_event builds
security_event_data(details) == details

\* int(s) of the decimal strings of the model
int_of(s) == IF s = "30" THEN 30 ELSE 5

\* int(os.getenv("AUDIT_RETENTION_DAYS", "30")), env being None when the
\* variable is unset
AuditLogger_retention(env) == int_of(IF env = None THEN "30" ELSE env)

\* The files of the directory without the file named n.
os_remove(files, n) == [m \in DOMAIN files \ {n} |-> files[m]]

\* A file named n with these lines, written today.
write_file(files, n, lines, today) ==
    [m \in DOMAIN files \cup {n} |->
        IF m = n THEN [lines |-> lines, mtime |-> today] ELSE files[m]]

\* AuditLogger._compress_old_log(log_path) for the log of day
AuditLogger_compress_old_log(files, day, today) ==
    LET log_path == <<day, "jsonl">>
        compressed_path == <<day, "jsonl.gz">>
    IN IF log_path \notin DOMAIN files THEN files
       ELSE IF today - files[log_path].mtime >= CompressAfterDays
       THEN IF compressed_path \notin DOMAIN files
            THEN os_remove(write_file(files, compressed_path,
                                      files[log_path].lines, today),
                           log_path)
            ELSE files
       ELSE files

\* AuditLogger._cleanup_old_logs()
AuditLogger_cleanup_old_logs(files, keep_days, today) ==
    [m \in {n \in DOMAIN files : ~(today - files[n].mtime > keep_days)} |->
        files[m]]

\* AuditLogger._rotate_log_if_needed(): the files it leaves
AuditLogger_rotate(files, current, keep_days, today) ==
    IF today # current
    THEN AuditLogger_cleanup_old_logs(
             AuditLogger_compress_old_log(files, current, today),
             keep_days, today)
    ELSE files

\* AuditLogger._write_event(event): a line appended to the file of day
AuditLogger_write_event(files, day, event, today) ==
    LET n == <<day, "jsonl">>
        before == IF n \in DOMAIN files THEN files[n].lines ELSE <<>>
    IN write_file(files, n, Append(before, event), today)

\* The days of the model's clock, the retention settings and the data.
AuditDays == {0, 1, 8, 9}
RetentionEnvs == {None, "5"}
AuditWords == {<<"ok">>, <<"ok", "bob@example.com">>, <<"10.0.0.1">>}
AuditData ==
    {PyDict([q |-> PyStr(ws)]) : ws \in AuditWords}
      \cup {PyDict([items |-> PyList(<<PyStr(<<"123-45-6789">>), PyInt(7)>>)])}
AuditCalls == {1, 2}

InitAudit ==
    /\ installed = Libs
    /\ AllNew

\* AuditLogger()
AuditConstruct ==
    /\ a_pc = "new"
    /\ \E env \in RetentionEnvs : retention_days' = AuditLogger_retention(env)
    /\ a_current' = a_today
    /\ a_pc' = "built"
    /\ a_last' = "init"
    /\ UNCHANGED <<a_today, a_files, a_args, a_ids>>
    /\ UNCHANGED NotAudit

\* Midnight (UTC) passes, once or several times.
AuditTick ==
    /\ a_pc = "built"
    /\ \E d \in AuditDays : d > a_today /\ a_today' = d
    /\ UNCHANGED <<a_pc, a_last, a_current, retention_days, a_files, a_args,
                   a_ids>>
    /\ UNCHANGED NotAudit

\* log_tool_call(tool_name, input_data, output_data)
LogToolCall ==
    /\ a_pc = "built"
    /\ a_ids + 1 \in AuditCalls
    /\ \E input_data \in AuditData, output_data \in AuditData :
          LET rotated == AuditLogger_rotate(a_files, a_current,
                                            retention_days, a_today)
              event == [event_type |-> "tool_call",
                        request_id |-> a_ids + 1,
                        timestamp |-> a_today,
                        input_data |-> AuditLogger_sanitize_data(input_data),
                        output_data |->
                            AuditLogger_sanitize_data(output_data)]
          IN /\ a_args' = [input |-> input_data, output |-> output_data]
             /\ a_files' = AuditLogger_write_event(rotated, a_today, event,
                                                   a_today)
    /\ a_current' = a_today
    /\ a_ids' = a_ids + 1
    /\ a_last' = "log_tool_call"
    /\ UNCHANGED <<a_pc, a_today, retention_days>>
    /\ UNCHANGED NotAudit

\* log_security_event(event_type, tool_name, details)
LogSecurityEvent ==
    /\ a_pc = "built"
    /\ a_ids + 1 \in AuditCalls
    /\ \E details \in AuditData :
          LET event == [event_type |-> "security",
                        request_id |-> a_ids + 1,
                        timestamp |-> a_today,
                        input_data |-> security_event_data(details),
                        output_data |-> PyDict(EmptyMap)]
          IN /\ a_args' = [input |-> details, output |-> PyDict(EmptyMap)]
             /\ a_files' = AuditLogger_write_event(a_files, a_current, event,
                                                   a_today)
    /\ a_ids' = a_ids + 1
    /\ a_last' = "log_security_event"
    /\ UNCHANGED <<a_pc, a_today, a_current, retention_days>>
    /\ UNCHANGED NotAudit

NextAudit == AuditConstruct \/ AuditTick \/ LogToolCall \/ LogSecurityEvent

SpecAudit == InitAudit /\ [][NextAudit]_vars

(***************************************************************************)
(* obs/audit.py: rotate_and_compress.  The file name audit-YYYY-MM-DD      *)
(* followed by its extensions is [day, ext], ext being <<".jsonl">> or,    *)
(* for a compressed log, <<".jsonl", ".gz">>; a directory maps the names   *)
(* of its files to their contents, a compressed file holding what gunzip   *)
(* gives.                                                                  *)
(***************************************************************************)
LogName(day) == [day |-> day, ext |-> <<".jsonl">>]
GzName(day) == [day |-> day, ext |-> <<".jsonl", ".gz">>]

\* f + ".gz"
plus_gz(f) == [f EXCEPT !.ext = Append(@, ".gz")]

\* f.endswith(".jsonl")
ends_with_jsonl(f) == f.ext # <<>> /\ f.ext[Len(f.ext)] = ".jsonl"

\* The extensions that stand before the first ".jsonl".
RECURSIVE before_jsonl(_)
before_jsonl(ext) ==
    IF ext = <<>> \/ Head(ext) = ".jsonl" THEN <<>>
    ELSE <<Head(ext)>> \o before_jsonl(Tail(ext))

\* f.split(".jsonl")[0]
split_jsonl_0(f) == [f EXCEPT !.ext = before_jsonl(@)]

\* stem.replace(".gz", "")
replace_gz(stem) ==
    [stem EXCEPT !.ext = SelectSeq(@, LAMBDA part : part # ".gz")]

\* sorted(names) of names that differ in the day only
RECURSIVE sorted_names(_)
sorted_names(S) ==
    IF S = {} THEN <<>>
    ELSE LET first == CHOOSE f \in S : \A g \in S : f.day <= g.day
         IN <<first>> \o sorted_names(S \ {first})

\* files[-n:]
last_n(files, n) ==
    IF n = 0 THEN files
    ELSE SubSeq(files, Max(Len(files) - n, 0) + 1, Len(files))

\* lines 325-331: the directory after the compression of files[i..]
RECURSIVE compress_from(_, _, _)
compress_from(dir, files, i) ==
    IF i > Len(files) THEN dir
    ELSE LET p == files[i]
             gz == plus_gz(p)
         IN compress_from(
                IF gz \notin DOMAIN dir
                THEN os_remove([m \in DOMAIN dir \cup {gz} |->
                                   IF m = gz THEN dir[p] ELSE dir[m]], p)
                ELSE dir,
                files, i + 1)

\* lines 333-339: the files that the pruning leaves
prune(dir, keep) ==
    [m \in {f \in DOMAIN dir :
               replace_gz(split_jsonl_0(f)) \in keep} |-> dir[m]]

\* rotate_and_compress(base_dir, days_to_keep, compress) on a directory
rotate_and_compress(dir, days_to_keep, compress) ==
    LET files == sorted_names({f \in DOMAIN dir : ends_with_jsonl(f)})
        compressed == IF compress THEN compress_from(dir, files, 1) ELSE dir
        keep == Range(last_n(files, days_to_keep))
    IN prune(compressed, keep)

\* The directories of the model: of each of the days 1 .. MaxLogDays the
\* log, its compressed copy, both or neither; the content of a day's log
\* is the day.
LogDirs ==
    {[f \in S |-> f.day] :
        S \in SUBSET ({LogName(d) : d \in 1 .. MaxLogDays}
                        \cup {GzName(d) : d \in 1 .. MaxLogDays})}

InitRotate ==
    /\ installed = Libs
    /\ AllNew

\* rotate_and_compress(base_dir, days_to_keep, compress)
Rotate ==
    /\ r_pc = "idle"
    /\ \E dir \in LogDirs, days_to_keep \in 0 .. MaxLogDays,
          compress \in BOOLEAN :
          /\ r_before' = dir
          /\ r_args' = [days_to_keep |-> days_to_keep, compress |-> compress]
          /\ r_dir' = rotate_and_compress(dir, days_to_keep, compress)
    /\ r_pc' = "done"
    /\ UNCHANGED NotRotate

\* The caller goes on.
RotateReturn ==
    /\ r_pc = "done"
    /\ r_pc' = "idle"
    /\ r_args' = None
    /\ r_before' = EmptyMap
    /\ r_dir' = EmptyMap
    /\ UNCHANGED NotRotate

NextRotate == Rotate \/ RotateReturn

SpecRotate == InitRotate /\ [][NextRotate]_vars

(***************************************************************************)
(* What the claims speak of, read off the state a query leaves.            *)
(***************************************************************************)
Queried == last = "query" /\ exc = "none"
AlphaInRange == RLe(Zero, alpha) /\ RLe(alpha, One)
IdsOf(hs) == {hs[p][1] : p \in DOMAIN hs}
\* The union of the two methods' candidates.
Candidates == IdsOf(v_hits) \cup IdsOf(bm_hits)
HitIds == {hits[p].chunk_id : p \in DOMAIN hits}
\* The raw score a ranking gives c.
RawIn(hs, c) == hs[CHOOSE p \in DOMAIN hs : hs[p][1] = c][2]
LowIn(hs) == CHOOSE v \in {hs[p][2] : p \in DOMAIN hs} :
                 \A p \in DOMAIN hs : v <= hs[p][2]
HighIn(hs) == CHOOSE v \in {hs[p][2] : p \in DOMAIN hs} :
                  \A p \in DOMAIN hs : hs[p][2] <= v
\* The normalized score the design gives c under a ranking: 0.0 when the
\* ranking misses c, 1.0 when the ranking's scores lie within the threshold,
\* (v - min) / (max - min) otherwise.
NormIn(hs, c) ==
    IF c \notin IdsOf(hs) THEN Zero
    ELSE IF HighIn(hs) - LowIn(hs) <= Eps THEN One
    ELSE Rat(RawIn(hs, c) - LowIn(hs), HighIn(hs) - LowIn(hs))
\* alpha * normalized_vector_score + (1 - alpha) * normalized_bm25_score
FusedOf(c) ==
    RAdd(RMul(alpha, NormIn(v_hits, c)),
         RMul(RSub(One, alpha), NormIn(bm_hits, c)))

(***************************************************************************)
(* C1: for k >= 1 and alpha in [0,1] a query returns at most k hits, in    *)
(* non-increasing order of fused score, and no candidate of the union that *)
(* is left out has a strictly greater fused score than a returned hit.     *)
(***************************************************************************)
C1_TopKByFusedScore ==
    (Queried /\ k >= 1 /\ AlphaInRange) =>
        /\ Len(hits) <= k
        /\ HitIds \subseteq Candidates
        /\ \A i, j \in DOMAIN hits :
              i < j => RLe(hits[j].score, hits[i].score)
        /\ \A c \in Candidates \ HitIds : \A i \in DOMAIN hits :
              RLe(FusedOf(c), hits[i].score)

\* k hits of different scores are returned and a candidate that only one
\* method found is left out below them.
C1_Witness ==
    /\ Queried /\ k >= 2 /\ AlphaInRange
    /\ Len(hits) = k
    /\ RLt(hits[k].score, hits[1].score)
    /\ \E c \in Candidates \ HitIds :
          /\ c \notin IdsOf(v_hits)
          /\ RLt(FusedOf(c), hits[k].score)

(***************************************************************************)
(* C2: the candidates are the union of the ids the vector search and the   *)
(* BM25 query returned, and every candidate's fused score is               *)
(* alpha * normalized vector score + (1 - alpha) * normalized BM25 score,  *)
(* a method that did not return the candidate contributing 0.              *)
(***************************************************************************)
C2_UnionAndFusedScore ==
    Queried =>
        /\ DOMAIN merged = Candidates
        /\ \A c \in Candidates : merged[c] = FusedOf(c)
        /\ \A p \in DOMAIN hits : hits[p].score = FusedOf(hits[p].chunk_id)

\* One candidate comes from BM25 alone, with a fused score above 0, and one
\* from the vector search alone, and both weights count.
C2_Witness ==
    /\ Queried /\ alpha = <<1, 2>>
    /\ \E c \in Candidates :
          /\ c \notin IdsOf(v_hits)
          /\ RLt(Zero, merged[c])
    /\ \E c \in Candidates : c \notin IdsOf(bm_hits)

(***************************************************************************)
(* C3: norm maps a non-empty score mapping into [0,1] as                   *)
(* (v - min) / (max - min), the minimum to 0 and the maximum to 1; when    *)
(* all raw scores lie within 1e-9 of each other (a single entry too) every *)
(* entry becomes exactly 1.0; it never divides by zero.                    *)
(***************************************************************************)
NormalizedAsClaimed(d, dn) ==
    /\ DOMAIN dn = DOMAIN d
    /\ \A c \in DOMAIN dn : dn[c][2] > 0
    /\ DOMAIN d # {} =>
          LET lo == CHOOSE v \in {d[c] : c \in DOMAIN d} :
                        \A c \in DOMAIN d : v <= d[c]
              hi == CHOOSE v \in {d[c] : c \in DOMAIN d} :
                        \A c \in DOMAIN d : d[c] <= v
          IN IF hi - lo <= Eps
             THEN \A c \in DOMAIN d : dn[c] = One
             ELSE /\ \A c \in DOMAIN d :
                       /\ dn[c][1] * (hi - lo) = (d[c] - lo) * dn[c][2]
                       /\ RLe(Zero, dn[c]) /\ RLe(dn[c], One)
                       /\ d[c] = lo => dn[c] = Zero
                       /\ d[c] = hi => dn[c] = One

C3_MinMaxNormalization ==
    Queried => NormalizedAsClaimed(v_map, v_n) /\ NormalizedAsClaimed(bm_map, bm_n)

\* One mapping has two different raw scores within the threshold, the other
\* a spread above it.
C3_Witness ==
    /\ Queried
    /\ \E c, d \in DOMAIN v_map :
          v_map[c] # v_map[d] /\ v_n[c] = One /\ v_n[d] = One
    /\ \E c, d \in DOMAIN bm_n : bm_n[c] = Zero /\ bm_n[d] = One

(***************************************************************************)
(* C4: for alpha in [0,1] the score of every returned hit lies in [0,1].   *)
(***************************************************************************)
C4_ScoreInUnitInterval ==
    (Queried /\ AlphaInRange) =>
        \A p \in DOMAIN hits :
            /\ hits[p].score[2] > 0
            /\ RLe(Zero, hits[p].score)
            /\ RLe(hits[p].score, One)

\* Hits at 1, at 0 and strictly between.
C4_Witness ==
    /\ Queried /\ AlphaInRange
    /\ \E p \in DOMAIN hits : hits[p].score = One
    /\ \E p \in DOMAIN hits : hits[p].score = Zero
    /\ \E p \in DOMAIN hits : RLt(Zero, hits[p].score) /\ RLt(hits[p].score, One)

(***************************************************************************)
(* C5 as stated: with alpha = 1 the ids returned by query(q, k), k >= 1,   *)
(* are the vector index's own top-k for q, in its order, and with          *)
(* alpha = 0 they are the BM25 retriever's own top-k, in its order.        *)
(***************************************************************************)
IdSeq(hs) == [p \in DOMAIN hs |-> hs[p][1]]
HitIdSeq == [p \in DOMAIN hits |-> hits[p].chunk_id]
HitScoreSeq == [p \in DOMAIN hits |-> hits[p].score]

C5_PureRankingAtExtremes ==
    (Queried /\ k >= 1) =>
        /\ alpha = One => HitIdSeq = IdSeq(Slice(v_hits, k))
        /\ alpha = Zero => HitIdSeq = IdSeq(Slice(bm_hits, k))

(***************************************************************************)
(* C5 as amended: with alpha = 1 (alpha = 0) the hits of query(q, k),      *)
(* k >= 1, are as many as the vector index's (the BM25 retriever's) own    *)
(* top-k and carry, position by position, that ranking's normalized        *)
(* scores; their ids are that ranking's ids, in its order, whenever no two *)
(* candidates have the same fused score.                                   *)
(***************************************************************************)
DistinctFused ==
    \A c, d \in Candidates : c # d => FusedOf(c) # FusedOf(d)

AgreesWith(hs) ==
    LET top == Slice(hs, k) IN
    /\ HitScoreSeq = [p \in DOMAIN top |-> NormIn(hs, top[p][1])]
    /\ DistinctFused => HitIdSeq = IdSeq(top)

C5_PureScoresAtExtremes ==
    (Queried /\ k >= 1) =>
        /\ alpha = One => AgreesWith(v_hits)
        /\ alpha = Zero => AgreesWith(bm_hits)

\* At alpha = 1 the hits are the vector ranking's ids in another order, and
\* a corpus with pairwise different fused scores is queried too.
C5_Witness ==
    /\ Queried /\ k >= 2 /\ Len(hits) = k
    /\ \/ /\ alpha = One
          /\ HitIdSeq # IdSeq(Slice(v_hits, k))
          /\ HitIds = IdsOf(Slice(v_hits, k))
       \/ /\ alpha = Zero
          /\ DistinctFused
          /\ hits[1].bm25 # hits[2].bm25

(***************************************************************************)
(* C6: alpha is validated: constructing or querying the retriever with     *)
(* alpha < 0 or alpha > 1 fails, so no retriever is built with such an     *)
(* alpha and no query returns hits under it.                               *)
(***************************************************************************)
C6_AlphaValidated ==
    (pc = "built" \/ last = "query") => AlphaInRange

(***************************************************************************)
(* C7: a query with k <= 0 is rejected with InvalidParameterError; it      *)
(* never returns a list.                                                   *)
(***************************************************************************)
C7_NonPositiveKRejected ==
    (last = "query" /\ k <= 0) => exc = "InvalidParameterError"

(***************************************************************************)
(* C8: building over zero chunks does not raise, and neither does a query  *)
(* on that index, which returns the empty list (every optional library     *)
(* being installed).                                                       *)
(***************************************************************************)
C8_EmptyCorpusReturnsEmpty ==
    (installed = Libs /\ last # "none" /\ Len(chunks) = 0) =>
        /\ exc = "none"
        /\ last = "query" => hits = <<>>

(***************************************************************************)
(* C9: a missing optional library (rank_bm25, faiss, sentence_transformers)*)
(* is never surfaced: constructing the retriever over a non-empty corpus   *)
(* and querying it succeed on a fallback path.                             *)
(***************************************************************************)
C9_MissingBackendAbsorbed ==
    (last # "none" /\ Len(chunks) > 0 /\ installed # Libs) =>
        /\ exc = "none"
        /\ pc = "built"

(***************************************************************************)
(* C10: for max_chars > 0 chunk_records loses and duplicates nothing: the  *)
(* chunks of each document are its sentences (simple_sentence_split), in   *)
(* order, each exactly once, consecutive sentences of one chunk joined by  *)
(* a single space.                                                         *)
(***************************************************************************)
RECURSIVE JoinWithSpace(_)
JoinWithSpace(ss) ==
    IF ss = <<>> THEN <<>>
    ELSE IF Len(ss) = 1 THEN ss[1]
    ELSE ss[1] \o <<" ">> \o JoinWithSpace(Tail(ss))

\* The sentences ss cut into runs after the positions of cuts, each run
\* joined.
RECURSIVE JoinedRuns(_, _, _)
JoinedRuns(ss, cuts, from) ==
    IF from > Len(ss) THEN <<>>
    ELSE LET to == IF \E c \in cuts : c >= from
                   THEN CHOOSE c \in cuts :
                            c >= from /\ \A e \in cuts : e >= from => c <= e
                   ELSE Len(ss)
         IN <<JoinWithSpace(SubSeq(ss, from, to))>> \o JoinedRuns(ss, cuts, to + 1)

\* The texts of the chunks of record r, in the order of the list.
TextsOf(r) ==
    LET mine == SelectSeq(out_chunks, LAMBDA c : c.meta = records[r])
    IN [p \in DOMAIN mine |-> mine[p].text]

C10_ChunksCoverSentences ==
    (c_pc = "done" /\ max_chars > 0) =>
        \A r \in DOMAIN records :
            LET ss == simple_sentence_split(records[r].text) IN
            \E cuts \in SUBSET (1 .. (Len(ss) - 1)) :
                TextsOf(r) = JoinedRuns(ss, cuts, 1)

\* A document of three sentences comes back as two chunks.
C10_Witness ==
    /\ c_pc = "done" /\ max_chars > 0
    /\ \E r \in DOMAIN records :
          /\ Len(simple_sentence_split(records[r].text)) = 3
          /\ Len(TextsOf(r)) = 2

(***************************************************************************)
(* C11 as stated: within one chunk_records call the ids of the returned    *)
(* chunks are pairwise distinct, and the chunks of a document with id d    *)
(* carry d-0, d-1, d-2, ... in emission order, with no gap.                *)
(***************************************************************************)
\* The ids of the chunks of record r, in the order of the list.
IdsOfRecord(r) ==
    LET mine == SelectSeq(out_chunks, LAMBDA c : c.meta = records[r])
    IN [p \in DOMAIN mine |-> mine[p].id]

ChunkIdsDistinct ==
    \A i, j \in DOMAIN out_chunks :
        i # j => out_chunks[i].id # out_chunks[j].id

SequencePerDocument ==
    \A r \in DOMAIN records :
        IdsOfRecord(r) =
            [p \in DOMAIN IdsOfRecord(r) |-> <<records[r].id, p - 1>>]

DocumentIdsDistinct ==
    \A r, t \in DOMAIN records : r # t => records[r].id # records[t].id

C11_ChunkIdsUniqueAndSequential ==
    c_pc = "done" => ChunkIdsDistinct /\ SequencePerDocument

(***************************************************************************)
(* C11 as amended: the chunks of each document carry its id with the       *)
(* sequence numbers 0, 1, 2, ... in emission order, and the ids of all     *)
(* returned chunks are pairwise distinct when the documents' ids are.      *)
(***************************************************************************)
C11_ChunkIdsSequentialPerDocument ==
    c_pc = "done" =>
        /\ SequencePerDocument
        /\ DocumentIdsDistinct => ChunkIdsDistinct

\* Two documents with different ids, one of them cut into two chunks.
C11_Witness ==
    /\ c_pc = "done"
    /\ Len(records) = 2 /\ DocumentIdsDistinct
    /\ Len(IdsOfRecord(1)) = 2
    /\ Len(IdsOfRecord(2)) >= 1

(***************************************************************************)
(* C12: chunk_records called with max_chars <= 0 fails with                *)
(* ConfigurationError and returns no chunks.                               *)
(***************************************************************************)
C12_NonPositiveMaxCharsRejected ==
    (c_pc = "done" /\ max_chars <= 0) =>
        /\ c_exc = "ConfigurationError"
        /\ out_chunks = <<>>

(***************************************************************************)
(* C13: BM25Retriever.query returns its hits in non-increasing score       *)
(* order, chunks of equal score in their insertion order; the chunks left  *)
(* out rank after every hit in that same order, so corpus, query and k     *)
(* fix the list.                                                           *)
(***************************************************************************)
BM25Queried == b_last = "query" /\ b_exc = "none"

\* Chunk c ranks before chunk d: a higher score, or the same score and an
\* earlier place in the chunk list (chunk ids are the places).
RanksBefore(c, d) ==
    \/ b_scores[c] > b_scores[d]
    \/ b_scores[c] = b_scores[d] /\ c < d

C13_BM25StableDescending ==
    BM25Queried =>
        /\ \A p \in DOMAIN b_out :
              /\ b_out[p][1] \in DOMAIN b_scores
              /\ b_out[p][2] = b_scores[b_out[p][1]]
        /\ \A p, q \in DOMAIN b_out :
              p < q => RanksBefore(b_out[p][1], b_out[q][1])
        /\ \A c \in DOMAIN b_scores \ IdsOf(b_out) : \A p \in DOMAIN b_out :
              RanksBefore(b_out[p][1], c)
        /\ b_k >= 0 => Len(b_out) = Min(b_k, Len(b_chunks))

\* Three chunks of one score, two of them asked for.
C13_Witness ==
    /\ BM25Queried
    /\ Len(b_chunks) = 3 /\ b_k = 2
    /\ b_scores[1] = b_scores[2] /\ b_scores[2] = b_scores[3]
    /\ Len(b_out) = 2

(***************************************************************************)
(* C14: BM25Retriever.query returns at most k hits for every k, the empty  *)
(* list for k <= 0 and for an empty corpus, over which the retriever is    *)
(* built without an error (rank_bm25 being installed).                     *)
(***************************************************************************)
C14_BM25AtMostK ==
    /\ BM25Queried => Len(b_out) <= Max(b_k, 0)
    /\ (b_last # "none" /\ b_chunks = <<>> /\ "rank_bm25" \in installed) =>
          /\ b_exc = "none"
          /\ b_out = <<>>

(***************************************************************************)
(* C15: the brute-force path of FaissIndex.search returns at most k        *)
(* <<id, similarity>> pairs, the similarity being the dot product with the *)
(* query, in non-increasing similarity order, stored vectors of equal      *)
(* similarity in insertion order.                                          *)
(***************************************************************************)
NumpySearched == i_last = "search" /\ exc_numpy = "none"

C15_BruteForceStableTopK ==
    NumpySearched =>
        /\ i_k >= 0 => Len(out_numpy) <= i_k
        /\ \A p \in DOMAIN out_numpy :
              /\ out_numpy[p][1] \in DOMAIN i_vectors
              /\ out_numpy[p][2] = Dot(i_vectors[out_numpy[p][1]], i_q)
        /\ \A p, r \in DOMAIN out_numpy :
              p < r => \/ out_numpy[p][2] > out_numpy[r][2]
                       \/ /\ out_numpy[p][2] = out_numpy[r][2]
                          /\ out_numpy[p][1] < out_numpy[r][1]

(***************************************************************************)
(* C16: for the same ids, vectors, query, k >= 1 and metric the            *)
(* brute-force fallback returns the same ids in the same order as the      *)
(* faiss path (stored vectors that tie in inner product or in distance     *)
(* set aside).                                                             *)
(***************************************************************************)
BothSearched ==
    i_last = "search" /\ exc_numpy = "none" /\ exc_faiss = "none"

NoTies ==
    \A i, j \in DOMAIN i_vectors :
        i # j => /\ Dot(i_vectors[i], i_q) # Dot(i_vectors[j], i_q)
                 /\ L2sq(i_vectors[i], i_q) # L2sq(i_vectors[j], i_q)

C16_FallbackMatchesBackend ==
    (BothSearched /\ i_k >= 1 /\ NoTies) =>
        IdSeq(out_numpy) = IdSeq(out_faiss)

(***************************************************************************)
(* C17: when the model cannot be loaded, constructing Embeddings with the  *)
(* model-backed backend leaves a provider on the stub strategy, without a  *)
(* model, and every later encode returns the stub's vectors and raises     *)
(* nothing.                                                                *)
(***************************************************************************)
ModelUnavailable ==
    /\ e_pc = "built"
    /\ e_arg \notin {"stub", "fake"}
    /\ "sentence_transformers" \notin installed

C17_FallsBackToStub ==
    ModelUnavailable =>
        /\ e_emb.backend = "stub"
        /\ e_emb.model = FALSE
        /\ e_last = "encode" =>
              /\ e_exc = "none"
              /\ e_out = [i \in DOMAIN e_texts |-> Embeddings_stub(e_texts[i])]

\* Two texts were encoded by a provider that fell back.
C17_Witness ==
    /\ ModelUnavailable
    /\ e_last = "encode"
    /\ Len(e_texts) = 2
    /\ Len(e_out) = 2

(***************************************************************************)
(* C18: on the stub backend encode(texts) returns one vector of length 128 *)
(* per text, in the order of the texts, and a text's vector depends on the *)
(* text alone: equal texts have equal vectors within a batch and across    *)
(* calls and providers, whatever else the batch holds.                     *)
(***************************************************************************)
StubEncoded ==
    /\ e_last = "encode"
    /\ e_exc = "none"
    /\ e_emb.backend \in {"stub", "fake"}

C18_StubVectorPerText ==
    StubEncoded =>
        /\ Len(e_out) = Len(e_texts)
        /\ \A i \in DOMAIN e_out : Len(e_out[i]) = 128
        /\ \A i, j \in DOMAIN e_texts :
              e_texts[i] = e_texts[j] => e_out[i] = e_out[j]
        /\ \A i \in DOMAIN e_texts : \A j \in DOMAIN e_prev_texts :
              e_texts[i] = e_prev_texts[j] => e_out[i] = e_prev_out[j]

\* A text is encoded second in a batch of two different texts after it was
\* encoded alone, and the two texts' vectors differ.
C18_Witness ==
    /\ StubEncoded
    /\ Len(e_texts) = 2 /\ Len(e_prev_texts) = 1
    /\ e_texts[1] # e_texts[2]
    /\ e_texts[2] = e_prev_texts[1]
    /\ e_out[1] # e_out[2]

(***************************************************************************)
(* C19: queries are read-only: no step of a query changes the chunk list,  *)
(* the BM25 index, the vector index or alpha, and under every interleaving *)
(* of two callers' queries each call returns a list that the same call     *)
(* returns when it runs alone (which of the orders of equal fused scores,  *)
(* being open in both).                                                    *)
(***************************************************************************)
\* The lists query(q, k) can return on the retriever when nothing else runs.
AloneResults(a) ==
    UNION {LET vm == ToMap(vh)
               bmm == ToMap(BM25Retriever_query(chunks, a.bms,
                                                fetch(a.k)))
               mg == merge(alpha, vm, bmm, norm(vm), norm(bmm))
           IN {materialize(Slice(srt, a.k), mg, vm, bmm) :
                  srt \in merged_sort(mg)} :
             vh \in FaissIndex_search(index, a.sims, fetch(a.k))}

ReturnsAsAlone ==
    \A t \in Threads : t_pc[t] = "done" => t_ret[t] \in AloneResults(t_args[t])

RetrieverUntouched ==
    pc = "built" => UNCHANGED <<chunks, alpha, emb, bm25, index>>

C19_QueriesReadOnly == []ReturnsAsAlone /\ [][RetrieverUntouched]_vars

\* One call has returned while another, entered with other arguments, is
\* between its two searches.
C19_Witness ==
    /\ t_pc[1] = "done" /\ t_pc[2] = "searched"
    /\ t_args[1] # t_args[2]
    /\ Len(t_ret[1]) = 2
    /\ t_ret[1][1].score # t_ret[1][2].score

(***************************************************************************)
(* C20: for K >= 1 and at least one added result, Precision@K is the mean  *)
(* over the added results of the fraction of the top-K retrieved ids (the  *)
(* first K, or all when fewer were retrieved) that are relevant, a result  *)
(* with nothing retrieved counting 0.                                      *)
(***************************************************************************)
\* The places of the top K of result r, and those holding a relevant id.
TopPlaces(r, K) == 1 .. Min(K, Len(m_results[r].retrieved_docs))
RelevantPlaces(r, K) ==
    {p \in TopPlaces(r, K) :
        \E j \in DOMAIN m_results[r].relevant_docs :
            m_results[r].relevant_docs[j] = m_results[r].retrieved_docs[p]}

\* sum over the results r of |RelevantPlaces| / |TopPlaces|, as the
\* numerator over the denominator Den: every |TopPlaces| divides Den.
RECURSIVE FractionSum(_, _, _)
FractionSum(r, K, Den) ==
    IF r > Len(m_results) THEN 0
    ELSE (IF TopPlaces(r, K) = {} THEN 0
          ELSE Cardinality(RelevantPlaces(r, K))
               * (Den \div Cardinality(TopPlaces(r, K))))
         + FractionSum(r + 1, K, Den)

\* 6 is a multiple of every number of places (1, 2, 3).
C20_PrecisionIsMeanFraction ==
    (m_last = "precision_at_k" /\ m_k >= 1 /\ m_results # <<>>) =>
        /\ m_value[2] > 0
        /\ \A r \in DOMAIN m_results : Cardinality(TopPlaces(r, m_k)) \in {0, 1, 2, 3}
        /\ m_value[1] * 6 * Len(m_results) = FractionSum(1, m_k, 6) * m_value[2]

\* Two results at K = 2: one relevant id retrieved alone, one relevant id
\* out of two; the precision is 3/4.
C20_Witness ==
    /\ m_last = "precision_at_k" /\ m_k = 2
    /\ Len(m_results) = 2
    /\ Cardinality(TopPlaces(1, 2)) = 1 /\ Cardinality(RelevantPlaces(1, 2)) = 1
    /\ Cardinality(TopPlaces(2, 2)) = 2 /\ Cardinality(RelevantPlaces(2, 2)) = 1
    /\ m_value = <<3, 4>>

(***************************************************************************)
(* C23: a query asks the vector index for max(k, 10) candidates and the    *)
(* BM25 retriever for max(k, 10) candidates, each on its own, before it    *)
(* fuses: each method returns max(k, 10) candidates, or the whole corpus   *)
(* when that is smaller, and the union of the candidates holds at most     *)
(* 2 * max(k, 10) ids.                                                     *)
(***************************************************************************)
C23_FetchesMaxOfKAndFloor ==
    Queried =>
        LET want == IF k >= MinFetch THEN k ELSE MinFetch
            got == IF Len(chunks) <= want THEN Len(chunks) ELSE want
        IN /\ Len(v_hits) = got
           /\ Len(bm_hits) = got
           /\ Cardinality(IdsOf(v_hits)) = got
           /\ Cardinality(IdsOf(bm_hits)) = got
           /\ Cardinality(Candidates) <= 2 * want

\* A corpus larger than the floor is asked for fewer hits than the floor:
\* each method returns the floor's number of candidates, not the same ones,
\* and the union is larger than either.
C23_Witness ==
    /\ Queried /\ k >= 1 /\ k < MinFetch
    /\ Len(chunks) > MinFetch
    /\ Len(v_hits) = MinFetch /\ Len(bm_hits) = MinFetch
    /\ IdsOf(v_hits) # IdsOf(bm_hits)
    /\ Cardinality(Candidates) > MinFetch

(***************************************************************************)
(* C26: the order of the hits a query returns is fixed by the corpus, the  *)
(* query, k and alpha: whatever order the iteration over the set of        *)
(* candidate ids takes, the list that is returned is the same, candidates  *)
(* of equal fused score included.                                          *)
(***************************************************************************)
C26_HitOrderDetermined ==
    Queried =>
        \A srt \in merged_sort(merged) :
            materialize(Slice(srt, k), merged, v_map, bm_map) = hits

(***************************************************************************)
(* C24: for max_chars > 0 chunk_records packs greedily with a soft cap.    *)
(* Of every document, a chunk that holds two or more sentences is at most  *)
(* max_chars long; a chunk longer than max_chars is one sentence, whole,   *)
(* that is itself longer than max_chars; a chunk ends before a sentence    *)
(* only when the chunk, a space and that sentence together are longer than *)
(* max_chars; and a document without text yields no chunk.                 *)
(***************************************************************************)
\* The bounds of the chunks that the cuts leave of n sentences: chunk p
\* holds the sentences First(p) .. Last(p).
ChunkFirsts(cuts, n) == {1} \cup {c + 1 : c \in cuts}
ChunkLasts(cuts, n) == cuts \cup {n}
LastFrom(cuts, n, from) ==
    CHOOSE c \in ChunkLasts(cuts, n) :
        c >= from /\ \A e \in ChunkLasts(cuts, n) : e >= from => c <= e

PackedGreedily(ss, cuts, mc) ==
    /\ \A from \in ChunkFirsts(cuts, Len(ss)) :
          LET to == LastFrom(cuts, Len(ss), from)
              text == JoinWithSpace(SubSeq(ss, from, to))
          IN /\ to > from => Len(text) <= mc
             /\ Len(text) > mc => to = from /\ text = ss[from]
                                            /\ Len(ss[from]) > mc
             /\ to < Len(ss) => Len(text) + 1 + Len(ss[to + 1]) > mc

C24_GreedySoftCap ==
    (c_pc = "done" /\ max_chars > 0) =>
        \A r \in DOMAIN records :
            LET ss == simple_sentence_split(records[r].text) IN
            /\ records[r].text = <<>> => TextsOf(r) = <<>>
            /\ ss # <<>> =>
                 \E cuts \in SUBSET (1 .. (Len(ss) - 1)) :
                    /\ TextsOf(r) = JoinedRuns(ss, cuts, 1)
                    /\ PackedGreedily(ss, cuts, max_chars)

\* A document of three sentences: the first two fill max_chars to the last
\* character and make one chunk, the third would not fit and makes the next.
C24_Witness ==
    /\ c_pc = "done" /\ max_chars > 0
    /\ \E r \in DOMAIN records :
          /\ Len(simple_sentence_split(records[r].text)) = 3
          /\ Len(TextsOf(r)) = 2
          /\ Len(TextsOf(r)[1]) = max_chars

(***************************************************************************)
(* C29: after any sequence of add calls that each pass as many ids as      *)
(* vectors, on the faiss path and on the brute-force path alike, the index *)
(* holds as many ids as vectors and ids[i] is the id passed with the i-th  *)
(* stored vector; every pair a search returns carries the number the       *)
(* search reports for that id's own vector, and no search reads past the   *)
(* end of ids, whatever k is.                                              *)
(***************************************************************************)
IdsLabelRows(ix, X) ==
    /\ Len(ix.ids) = Len(X)
    /\ \A i \in DOMAIN X :
          ix.ids[i] \in DOMAIN i_vectors /\ X[i] = i_vectors[ix.ids[i]]

PairsOfOwnVector(ix, out) ==
    \A p \in DOMAIN out :
        /\ out[p][1] \in DOMAIN i_vectors
        /\ out[p][2] = Reported(ix, i_vectors[out[p][1]], i_q)

C29_IdsLabelStoredVectors ==
    i_pc = "added" =>
        /\ IdsLabelRows(ix_faiss, X_faiss)
        /\ IdsLabelRows(ix_numpy, X_numpy)
        /\ i_last = "search" =>
              /\ exc_faiss # "IndexError"
              /\ exc_numpy # "IndexError"
              /\ PairsOfOwnVector(ix_faiss, out_faiss)
              /\ PairsOfOwnVector(ix_numpy, out_numpy)

(***************************************************************************)
(* C30: for every sequence of add_result calls and every k >= 1, each of   *)
(* hit_at_k, mrr_at_k, precision_at_k, recall_at_k and f1_at_k returns a   *)
(* number in [0, 1], also when a retrieved list holds an id more than once *)
(* and when relevant_docs is empty.                                        *)
(***************************************************************************)
C30_MetricsInUnitInterval ==
    (m_last \in MetricCalls /\ m_k >= 1) =>
        RLe(Zero, m_value) /\ RLe(m_value, One)

(***************************************************************************)
(* C27: chunk_text terminates for every text, every chunk_size >= 1 and    *)
(* every overlap ratio in [0, 1]: an iteration of the multi-chunk loop     *)
(* either moves the start position strictly forward or is the last one,    *)
(* and when the loop is left the last chunk ends at the last word and      *)
(* every word of the text lies in a chunk.                                 *)
(***************************************************************************)
MultiChunk == Len(words) > chunk_size

LoopAdvancesOrExits ==
    (d_pc = "looping" /\ d_pc' = "looping") => start_idx' > start_idx

LoopExitCoversWords ==
    (d_pc = "done" /\ MultiChunk) =>
        /\ d_chunks # <<>>
        /\ d_chunks[Len(d_chunks)].end_pos = Len(words)
        /\ \A w \in DOMAIN words : \E c \in DOMAIN d_chunks :
              /\ d_chunks[c].start_pos < w /\ w <= d_chunks[c].end_pos
              /\ words[w] \in Range(d_chunks[c].content)

C27_ChunkTextTerminates ==
    [][LoopAdvancesOrExits]_vars /\ []LoopExitCoversWords

(***************************************************************************)
(* C28: for a multi-chunk document, chunk_size >= 1 and overlap in [0, 1), *)
(* the total_chunks in the metadata of every chunk chunk_text returns is   *)
(* the number of chunks returned, and the chunk_number of the i-th chunk   *)
(* (from 0) is i.                                                          *)
(***************************************************************************)
C28_TotalChunksIsCount ==
    (d_pc = "done" /\ MultiChunk /\ RLt(overlap, One)) =>
        \A c \in DOMAIN d_chunks :
            /\ d_chunks[c].metadata.total_chunks = Len(d_chunks)
            /\ d_chunks[c].metadata.chunk_number = c - 1

(***************************************************************************)
(* C21 as stated: a function wrapped by guard_tool(name) runs only when    *)
(* name is in the allowlist.  For a name outside it every call returns an  *)
(* error result with error == "Unauthorized" and the function does not     *)
(* run; for an allowed name the function runs exactly once and its result, *)
(* sanitized when redaction is enabled, is what the call returns.          *)
(***************************************************************************)
GuardCalled == g_last = "call"
NameAllowed == g_name \in Range(allowlist)
ErrorIs(ret, ws) ==
    /\ ret.t = "dict"
    /\ "error" \in DOMAIN ret.v
    /\ ret.v["error"] = PyStr(ws)
Blocked == g_runs = 0 /\ ErrorIs(g_ret, <<"Unauthorized">>)
\* The function's result after the sanitize step, if redaction is enabled.
SanitizedResult ==
    IF redact_outputs THEN Guardian_redact_output(TRUE, g_func.value)
    ELSE g_func.value

C21_RunsOnlyWhenAllowed ==
    GuardCalled =>
        IF ~NameAllowed THEN Blocked
        ELSE g_runs = 1 /\ g_ret = SanitizedResult

(***************************************************************************)
(* C21 as the code has it: the same, where the function returns.  Where    *)
(* the function raises, it has still run exactly once, the exception does  *)
(* not reach the caller and the call returns an error result with          *)
(* error == "Internal error".                                              *)
(***************************************************************************)
C21_RunsOnlyWhenAllowedOrFails ==
    GuardCalled =>
        IF ~NameAllowed THEN Blocked
        ELSE /\ g_runs = 1
             /\ IF g_func.raised THEN ErrorIs(g_ret, <<"Internal", "error">>)
                ELSE g_ret = SanitizedResult

\* An allowed tool returned a value that holds an email address, and the
\* call returned the value without it.
C21_Witness ==
    /\ GuardCalled /\ NameAllowed /\ redact_outputs
    /\ g_runs = 1 /\ ~g_func.raised
    /\ g_func.value.t = "dict"
    /\ g_ret # g_func.value
    /\ g_ret = PyDict([text |-> PyStr(<<"ok", "[REDACTED-EMAIL]">>),
                       n |-> PyInt(7)])

(***************************************************************************)
(* C22: every event the AuditLogger writes is PII-safe: in every event of  *)
(* every log file, written by log_tool_call or by log_security_event,      *)
(* every string inside input_data and output_data has been through the PII *)
(* redactor, so redacting it again changes nothing.                        *)
(***************************************************************************)
PiiSafe(data) == AuditLogger_sanitize_data(data) = data

C22_AuditEventsPiiSafe ==
    \A n \in DOMAIN a_files : \A l \in DOMAIN a_files[n].lines :
        /\ PiiSafe(a_files[n].lines[l].input_data)
        /\ PiiSafe(a_files[n].lines[l].output_data)

(***************************************************************************)
(* C25: rotate_and_compress applies a retention policy.  After it has run, *)
(* the logs of the most recent days_to_keep days that had a log are still  *)
(* in base_dir, as .jsonl or as .jsonl.gz, with their content, and a log   *)
(* is removed only if it is older than those; compressing loses no day's   *)
(* log.                                                                    *)
(***************************************************************************)
DaysOf(dir) == {f.day : f \in DOMAIN dir}
\* The n latest of the days S.
LatestDays(S, n) ==
    {d \in S : Cardinality({e \in S : e > d}) < n}
KeptDays == LatestDays(DaysOf(r_before), r_args.days_to_keep)

C25_RetentionKeepsRecentDays ==
    r_pc = "done" =>
        /\ \A d \in KeptDays :
              \E f \in DOMAIN r_dir : f.day = d /\ r_dir[f] = d
        /\ \A d \in DaysOf(r_before) \ DaysOf(r_dir) : d \notin KeptDays

=============================================================================
